---- MODULE Spec2Model ----
(***************************************************************************)
(* MiLCo supplier sales dashboard: the batch generator of assets/admin.js. *)
(*                                                                         *)
(* Three builds of the batch generator are in the repository:              *)
(*   "v1"  src/assets/admin.js:1-325      (CSV upload, silent skipping)    *)
(*   "csv" src/unnamed/part_001:624-1097  (CSV upload, invalid-row log)    *)
(*   "v2"  src/assets/admin.js:327-1352   (raw XLSX -> summary -> batches) *)
(*                                                                         *)
(* Text is a sequence of one-character strings, so that trimming, case     *)
(* folding, number parsing and number formatting are computed, not         *)
(* assumed.  A JavaScript number is an integer count of 10^-FracDigits     *)
(* units (a fixed-point decimal); NaN is a reserved value.                 *)
(***************************************************************************)
EXTENDS Integers, Sequences, FiniteSets, TLC

\* ------------------------------------------------------------------------
\* Bounds of the model
\* ------------------------------------------------------------------------
FracDigits == 3    \* decimal places a modelled number carries
MaxRows == 2       \* rows of an uploaded monthly sales CSV (v1, csv builds)
MaxRawRows == 3    \* data rows of an uploaded raw POS sheet (v2 build)
MaxInFlight == 2   \* runs of the process handler suspended at one time
MaxNameLen == 4    \* characters of a company name in a lookup
MaxSheetRows == 2   \* data rows of a sheet uploaded to the registry update

RECURSIVE Pow10(_)
Pow10(n) == IF n = 0 THEN 1 ELSE 10 * Pow10(n - 1)

Scale == Pow10(FracDigits)           \* units per 1.0
Cent == Pow10(FracDigits - 2)        \* units per 0.01
NaN == 0 - Pow10(FracDigits + 5)     \* reserved: not a number (below every modelled value)

isFinite(x) == x # NaN

SetMin(S) == CHOOSE x \in S : \A y \in S : x <= y
SetMax(S) == CHOOSE x \in S : \A y \in S : x >= y
Abs(x) == IF x < 0 THEN 0 - x ELSE x

\* ------------------------------------------------------------------------
\* Characters and strings
\* ------------------------------------------------------------------------
LowerCase == <<"a","b","c","d","e","f","g","h","i","j","k","l","m",
               "n","o","p","q","r","s","t","u","v","w","x","y","z">>
UpperCase == <<"A","B","C","D","E","F","G","H","I","J","K","L","M",
               "N","O","P","Q","R","S","T","U","V","W","X","Y","Z">>
Digits == <<"0","1","2","3","4","5","6","7","8","9">>

\* the upper-case letter of a lower-case letter; the value of a digit
UpperOf ==
  [c \in {LowerCase[k] : k \in 1..Len(LowerCase)} |->
     UpperCase[CHOOSE k \in 1..Len(LowerCase) : LowerCase[k] = c]]
DigitOf ==
  [c \in {Digits[k] : k \in 1..Len(Digits)} |->
     (CHOOSE k \in 1..Len(Digits) : Digits[k] = c) - 1]

\* the characters \w matches
WordChars ==
  DOMAIN UpperOf \cup {UpperOf[c] : c \in DOMAIN UpperOf} \cup DOMAIN DigitOf \cup {"_"}

IndexIn(c, seq) ==
  LET hits == {k \in 1..Len(seq) : seq[k] = c}
  IN IF hits = {} THEN 0 ELSE CHOOSE k \in hits : \A j \in hits : k <= j

IsSpace(c) == c \in {" ", "\t", "\n", "\r"}
IsDigit(c) == c \in DOMAIN DigitOf
IsWordChar(c) == c \in WordChars

toUpperChar(c) == IF c \in DOMAIN UpperOf THEN UpperOf[c] ELSE c

toUpperCase(s) == [k \in 1..Len(s) |-> toUpperChar(s[k])]

\* String.prototype.trim
trim(s) ==
  LET ns == {k \in 1..Len(s) : ~IsSpace(s[k])}
  IN IF ns = {} THEN <<>> ELSE SubSeq(s, SetMin(ns), SetMax(ns))

\* s.replace(/\s+/g, " ")
RECURSIVE collapseFrom(_, _)
collapseFrom(s, k) ==
  IF k > Len(s) THEN <<>>
  ELSE IF IsSpace(s[k])
       THEN (IF k > 1 /\ IsSpace(s[k - 1])
             THEN collapseFrom(s, k + 1)
             ELSE <<" ">> \o collapseFrom(s, k + 1))
       ELSE <<s[k]>> \o collapseFrom(s, k + 1)

collapseSpaces(s) == collapseFrom(s, 1)

\* a key that keeps the runs of whitespace
normNameUncollapsed(s) == toUpperCase(trim(s))

\* normName(s): trim, replace(/\s+/g, " "), toUpperCase
normName(s) == toUpperCase(collapseSpaces(trim(s)))

clean(s) == trim(s)

\* r[c] of a parsed row: a row is a function from its column labels to cells;
\* an absent column reads as undefined, which clean() turns into "".
Has(r, c) == c \in DOMAIN r
cleanCol(r, c) == IF Has(r, c) THEN clean(r[c]) ELSE <<>>

\* ------------------------------------------------------------------------
\* Numbers: Number(text), String(number), toFixed(2)
\* ------------------------------------------------------------------------
AllDigits(d) == \A k \in 1..Len(d) : IsDigit(d[k])

RECURSIVE DigitsVal(_)
DigitsVal(d) ==
  IF d = <<>> THEN 0
  ELSE DigitsVal(SubSeq(d, 1, Len(d) - 1)) * 10 + DigitOf[d[Len(d)]]

RECURSIVE IntToStr(_)
IntToStr(n) ==
  IF n < 10 THEN <<Digits[n + 1]>>
  ELSE IntToStr(n \div 10) \o <<Digits[(n % 10) + 1]>>

RECURSIVE PadLeft(_, _)
PadLeft(d, n) == IF Len(d) >= n THEN d ELSE PadLeft(<<"0">> \o d, n)

RECURSIVE PadRight(_, _)
PadRight(d, n) == IF Len(d) >= n THEN d ELSE PadRight(d \o <<"0">>, n)

RECURSIVE StripZeros(_)
StripZeros(d) ==
  IF d # <<>> /\ d[Len(d)] = "0" THEN StripZeros(SubSeq(d, 1, Len(d) - 1)) ELSE d

\* Number(text) for plain decimal literals: optional sign, digits, optional
\* fraction of at most FracDigits digits; "" (after trimming) is 0; anything
\* else is NaN.  Exponents, hex literals and longer fractions do not occur in
\* the modelled inputs.
fixedValue(ip, fp) ==
  IF /\ AllDigits(ip) /\ AllDigits(fp)
     /\ Len(ip) + Len(fp) > 0
     /\ Len(fp) <= FracDigits
  THEN DigitsVal(ip) * Scale + DigitsVal(PadRight(fp, FracDigits))
  ELSE NaN

splitValue(u, dot) ==
  fixedValue(IF dot = 0 THEN u ELSE SubSeq(u, 1, dot - 1),
             IF dot = 0 THEN <<>> ELSE SubSeq(u, dot + 1, Len(u)))

unsignedValue(u) == splitValue(u, IndexIn(".", u))

applySign(neg, x) == IF neg /\ isFinite(x) THEN 0 - x ELSE x

signedValue(t) ==
  IF t = <<>> THEN 0
  ELSE applySign(t[1] = "-", unsignedValue(IF t[1] \in {"-", "+"} THEN Tail(t) ELSE t))

Number(s) == signedValue(trim(s))

\* Number(r[c]): Number(undefined) is NaN
NumberCol(r, c) == IF Has(r, c) THEN Number(r[c]) ELSE NaN

\* String(x) of a finite number
NumToStr(x) ==
  LET a == Abs(x)
      fr == StripZeros(PadLeft(IntToStr(a % Scale), FracDigits))
  IN (IF x < 0 THEN <<"-">> ELSE <<>>)
     \o IntToStr(a \div Scale)
     \o (IF fr = <<>> THEN <<>> ELSE <<".">> \o fr)

\* x.toFixed(2): round to the nearest cent.  The modelled amounts never lie
\* exactly half-way between two cents.
toFixed2(x) ==
  LET a == Abs(x)
      cents == (a + (Cent \div 2)) \div Cent
  IN (IF x < 0 THEN <<"-">> ELSE <<>>)
     \o IntToStr(cents \div 100) \o <<".">> \o PadLeft(IntToStr(cents % 100), 2)

money(n) == IF isFinite(n) THEN toFixed2(n) ELSE <<>>

\* s.replace(/,/g, "")
stripCommas(s) == SelectSeq(s, LAMBDA c : c # ",")

\* s.replace(/^M\s*/i, "")
RECURSIVE dropSpaces(_)
dropSpaces(s) == IF s # <<>> /\ IsSpace(s[1]) THEN dropSpaces(Tail(s)) ELSE s

stripCurrency(s) ==
  IF s # <<>> /\ s[1] \in {"M", "m"} THEN dropSpaces(Tail(s)) ELSE s

parseAmount(val) ==
  LET s == clean(val) IN
  IF s = <<>> THEN NaN ELSE Number(stripCurrency(stripCommas(s)))

parseAmountCol(r, c) == IF Has(r, c) THEN parseAmount(r[c]) ELSE NaN

\* ------------------------------------------------------------------------
\* Months and period recovery
\* ------------------------------------------------------------------------
MONTHS == <<
  <<"J","a","n","u","a","r","y">>,
  <<"F","e","b","r","u","a","r","y">>,
  <<"M","a","r","c","h">>,
  <<"A","p","r","i","l">>,
  <<"M","a","y">>,
  <<"J","u","n","e">>,
  <<"J","u","l","y">>,
  <<"A","u","g","u","s","t">>,
  <<"S","e","p","t","e","m","b","e","r">>,
  <<"O","c","t","o","b","e","r">>,
  <<"N","o","v","e","m","b","e","r">>,
  <<"D","e","c","e","m","b","e","r">>
>>

\* monthIndex(monthName): 0-based index into MONTHS, -1 if not found
MonthsUpper == [k \in 1..Len(MONTHS) |-> toUpperCase(MONTHS[k])]

monthIndex(monthName) ==
  LET m == toUpperCase(clean(monthName))
      hits == {k \in 1..Len(MONTHS) : MonthsUpper[k] = m}
  IN IF hits = {} THEN 0 - 1 ELSE SetMin(hits) - 1

\* the regular expression \b at position p of t (between t[p-1] and t[p])
Boundary(t, p) ==
  LET before == p > 1 /\ p - 1 <= Len(t) /\ IsWordChar(t[p - 1])
      after == p >= 1 /\ p <= Len(t) /\ IsWordChar(t[p])
  IN before # after

\* case-insensitive occurrence of the upper-case word w at position p of t
MatchesAt(t, p, w) ==
  /\ p + Len(w) - 1 <= Len(t)
  /\ \A j \in 1..Len(w) : toUpperChar(t[p + j - 1]) = w[j]

\* \b(January|...|December)\b matching at position p: the month numbers (1..12)
MonthsAt(t, p) ==
  IF ~Boundary(t, p) THEN {}
  ELSE {k \in 1..Len(MONTHS) :
          /\ MatchesAt(t, p, MonthsUpper[k])
          /\ Boundary(t, p + Len(MONTHS[k]))}

FourDigitsAt(t, q) ==
  q >= 1 /\ q + 3 <= Len(t) /\ \A k \in q..(q + 3) : IsDigit(t[k])

\* end (exclusive) of the run of whitespace starting at position e
RECURSIVE skipSpaces(_, _)
skipSpaces(t, e) == IF e <= Len(t) /\ IsSpace(t[e]) THEN skipSpaces(t, e + 1) ELSE e

NoPeriod == [ok |-> FALSE, month |-> <<>>, year |-> NaN, period |-> <<>>]

\* { month, year: Number(year), period: `${month} ${year}` }
periodOf(m1, y1) ==
  [ok |-> TRUE, month |-> m1, year |-> Number(y1), period |-> m1 \o <<" ">> \o y1]

\* the month k matched at position p of t and the four digits at position q
periodAt(t, p, k, q) ==
  periodOf(SubSeq(t, p, p + Len(MONTHS[k]) - 1), SubSeq(t, q, q + 3))

firstMatchV2(t, mp, yp) ==
  IF mp = {} \/ yp = {} THEN NoPeriod
  ELSE periodAt(t, SetMin(mp), SetMin(MonthsAt(t, SetMin(mp))), SetMin(yp))

matchV2(t) ==
  firstMatchV2(t,
    {p \in 1..Len(t) : MonthsAt(t, p) # {}},
    {q \in 1..Len(t) : FourDigitsAt(t, q) /\ Boundary(t, q) /\ Boundary(t, q + 4)})

\* v2: the first month name and, independently, the first \b\d{4}\b
parseMonthYearFromTextV2(text) == matchV2(clean(text))

\* position of the year after the month k matched at p and the whitespace
yearPos(t, p, k) == skipSpaces(t, p + Len(MONTHS[k]))

\* the months for which \b(month)\b\s+(\d{4}) matches at position p
fullAt(t, p) ==
  {k \in MonthsAt(t, p) :
     /\ yearPos(t, p, k) > p + Len(MONTHS[k])
     /\ FourDigitsAt(t, yearPos(t, p, k))}

periodAtV1(t, p, k) == periodAt(t, p, k, yearPos(t, p, k))

firstMatchV1(t, mp) ==
  IF mp = {} THEN NoPeriod
  ELSE periodAtV1(t, SetMin(mp), SetMin(fullAt(t, SetMin(mp))))

matchV1(t) == firstMatchV1(t, {p \in 1..Len(t) : fullAt(t, p) # {}})

\* v1, csv: \b(month)\b\s+(\d{4}) -- the year must follow the month name
parseMonthYearFromTextV1(text) == matchV1(clean(text))

parseMonthYearFromText(v, text) ==
  IF v = "v2" THEN parseMonthYearFromTextV2(text) ELSE parseMonthYearFromTextV1(text)

\* ------------------------------------------------------------------------
\* Ledger rows
\* ------------------------------------------------------------------------
LedgerCols == {"MONTH", "YEAR", "PERIOD", "COMPANY NAME", "AMOUNT", "MODE", "REFERENCE"}

LedgerEntry(month, year, period, company, amount, mode, reference) ==
  [c \in LedgerCols |->
     CASE c = "MONTH" -> month
       [] c = "YEAR" -> year
       [] c = "PERIOD" -> period
       [] c = "COMPANY NAME" -> company
       [] c = "AMOUNT" -> amount
       [] c = "MODE" -> mode
       [] OTHER -> reference]

\* r[c1] ?? r[c2] ?? ...: the first column of cols the row has
FirstCols(r, cols) == {k \in 1..Len(cols) : Has(r, cols[k])}
firstCell(r, cols, hits) == IF hits = {} THEN <<>> ELSE r[cols[SetMin(hits)]]
cleanFirst(r, cols) == clean(firstCell(r, cols, FirstCols(r, cols)))
NumberFirst(r, cols) ==
  IF FirstCols(r, cols) = {} THEN NaN ELSE Number(firstCell(r, cols, FirstCols(r, cols)))

ledgerDate(month, year, period) == [month |-> month, year |-> year, period |-> period]

\* if ((!month || !Number.isFinite(year)) && period) { parsed = ...(period) ... }
fillFromPeriod(d, parsed) ==
  IF (d.month = <<>> \/ ~isFinite(d.year)) /\ d.period # <<>> /\ parsed.ok
  THEN ledgerDate(parsed.month, parsed.year, parsed.period)
  ELSE d

\* if ((!month || !Number.isFinite(year)) && reference) { parsed = ...(reference) ... }
fillFromReference(d, reference, parsed) ==
  IF (d.month = <<>> \/ ~isFinite(d.year)) /\ reference # <<>> /\ parsed.ok
  THEN ledgerDate(IF d.month = <<>> THEN parsed.month ELSE d.month,
                  IF isFinite(d.year) THEN d.year ELSE parsed.year,
                  IF d.period = <<>> THEN parsed.period ELSE d.period)
  ELSE d

\* if (!period && month && Number.isFinite(year)) period = `${month} ${year}`
fillPeriod(d) ==
  IF d.period = <<>> /\ d.month # <<>> /\ isFinite(d.year)
  THEN d.month \o <<" ">> \o NumToStr(d.year)
  ELSE d.period

upgradedRow(company, amount, mode, reference, d) ==
  [keep |-> company # <<>> /\ isFinite(amount),
   row |-> LedgerEntry(d.month,
                       IF isFinite(d.year) THEN NumToStr(d.year) ELSE <<>>,
                       fillPeriod(d), company, money(amount), mode, reference)]

upgradeWithReference(v, r, reference, period) ==
  upgradedRow(cleanFirst(r, <<"COMPANY NAME", "COMPANY", "NAME">>),
              NumberFirst(r, <<"AMOUNT", "Sum", "TOTAL">>),
              cleanCol(r, "MODE"),
              reference,
              fillFromReference(
                fillFromPeriod(ledgerDate(cleanCol(r, "MONTH"), NumberCol(r, "YEAR"), period),
                               parseMonthYearFromText(v, period)),
                reference,
                parseMonthYearFromText(v, reference)))

\* one iteration of the loop of normalizeLedgerRows: keep = the row is pushed
upgradeLedgerRow(v, r) ==
  upgradeWithReference(v, r, cleanFirst(r, <<"REFERENCE", "COMMENT", "PERIOD">>),
                       cleanCol(r, "PERIOD"))

keptRows(up) == SelectSeq(up, LAMBDA u : u.keep)
rowsOf(kept) == [k \in 1..Len(kept) |-> kept[k].row]

normalizeLedgerRows(v, ledgerRows) ==
  rowsOf(keptRows([k \in 1..Len(ledgerRows) |-> upgradeLedgerRow(v, ledgerRows[k])]))

\* the comparator of ledgerUpdated.sort
yearKey(a) == LET y == Number(a["YEAR"]) IN IF isFinite(y) THEN y ELSE 0
monthKey(a) == LET m == monthIndex(a["MONTH"]) IN IF m = 0 - 1 THEN 99 ELSE m

compareKeys(ya, yb, ma, mb) == IF ya # yb THEN ya - yb ELSE ma - mb

\* a comparator that forgets the month
ledgerCompareYearOnly(a, b) == yearKey(a) - yearKey(b)

ledgerCompare(a, b) == compareKeys(yearKey(a), yearKey(b), monthKey(a), monthKey(b))

\* Array.prototype.sort is stable: an element goes before the first element
\* that compares greater than it, after everything else
insertBefore(sorted, e, later) ==
  IF later = {} THEN Append(sorted, e)
  ELSE SubSeq(sorted, 1, SetMin(later) - 1) \o <<e>>
       \o SubSeq(sorted, SetMin(later), Len(sorted))

\* a sort that puts an element before the elements it ties with
insertBeforeTies(sorted, e) ==
  insertBefore(sorted, e, {k \in 1..Len(sorted) : ledgerCompare(sorted[k], e) >= 0})

insertStable(sorted, e) ==
  insertBefore(sorted, e, {k \in 1..Len(sorted) : ledgerCompare(sorted[k], e) > 0})

\* a sort that takes the elements from the last to the first, so that equal
\* elements change places
RECURSIVE sortLedgerFromTail(_)
sortLedgerFromTail(rows) ==
  IF rows = <<>> THEN <<>>
  ELSE insertStable(sortLedgerFromTail(Tail(rows)), Head(rows))

RECURSIVE sortLedger(_)
sortLedger(rows) ==
  IF rows = <<>> THEN <<>>
  ELSE insertStable(sortLedger(SubSeq(rows, 1, Len(rows) - 1)), rows[Len(rows)])

\* ------------------------------------------------------------------------
\* The process pass: one sales row
\* ------------------------------------------------------------------------
BANK == <<"B","A","N","K">>
MOMO == <<"M","O","M","O">>

\* an ISSUE cell is parts.join(sep)
Issue(parts, sep) == [parts |-> parts, sep |-> sep]

rowNameKey(r) == IF Has(r, "COMPANY NAME") THEN normName(r["COMPANY NAME"]) ELSE <<>>
rowRawName(r) == IF Has(r, "COMPANY NAME") THEN r["COMPANY NAME"] ELSE <<>>

\* v1 reads the cells with Number(); csv and v2 with parseAmount() and clean()
rowAmount(v, r) ==
  IF v = "v1" THEN NumberCol(r, "SUM of COST") ELSE parseAmountCol(r, "SUM of COST")

rowYear(v, r) ==
  IF v = "v1" THEN NumberCol(r, "YEAR") ELSE Number(cleanCol(r, "YEAR"))

rowMonth(r) == cleanCol(r, "MONTH")
rowComment(r) == cleanCol(r, "COMMENT")

\* the validation of a row; v1 tests the same four conditions and skips
rowReasons(v, r) ==
  (IF rowNameKey(r) = <<>> THEN <<"Missing COMPANY NAME">> ELSE <<>>)
  \o (IF ~isFinite(rowAmount(v, r)) THEN <<"Invalid SUM of COST (not a number)">> ELSE <<>>)
  \o (IF rowMonth(r) = <<>> THEN <<"Missing MONTH">> ELSE <<>>)
  \o (IF ~isFinite(rowYear(v, r)) THEN <<"Invalid YEAR">> ELSE <<>>)

\* amount > threshold ? "BANK" : "MOMO"
classifyModeStrict(amount, threshold) == IF amount > threshold THEN BANK ELSE MOMO

\* const mode = amount >= threshold ? "BANK" : "MOMO"
classifyMode(amount, threshold) == IF amount >= threshold THEN BANK ELSE MOMO

rowPeriod(v, r) == rowMonth(r) \o <<" ">> \o NumToStr(rowYear(v, r))

rowReference(v, r) ==
  IF rowComment(r) # <<>> THEN rowComment(r)
  ELSE <<"M","i","L","C","o"," ">> \o rowPeriod(v, r) \o <<" ","S","a","l","e","s">>

\* supplierMap: banking.forEach(r => map.set(normName(r["COMPANY NAME"]), r))
supplierHits(banking, key) ==
  {k \in 1..Len(banking) : rowNameKey(banking[k]) = key}

hasSupplier(banking, key) == supplierHits(banking, key) # {}

\* an index that keeps the first row of a key
supplierOfFirst(banking, key) == banking[SetMin(supplierHits(banking, key))]

\* Map.set overwrites: the last row with the key is the one kept
supplierOf(banking, key) == banking[SetMax(supplierHits(banking, key))]

\* what one row appends to each list
NoRoute == [bank |-> <<>>, momo |-> <<>>, exc |-> <<>>, inv |-> <<>>, led |-> <<>>]

exceptionEntry(company, amount, mode, month, year, issue) ==
  ("COMPANY NAME" :> company) @@ ("AMOUNT" :> money(amount)) @@ ("MODE" :> mode)
  @@ ("MONTH" :> month) @@ ("YEAR" :> NumToStr(year)) @@ ("ISSUE" :> issue)

invalidEntry(v, r, i) ==
  ("ROW_NUMBER" :> i + 2) @@ ("COMPANY NAME" :> clean(rowRawName(r)))
  @@ ("SUM of COST" :> cleanCol(r, "SUM of COST")) @@ ("COMMENT" :> rowComment(r))
  @@ ("MONTH" :> rowMonth(r)) @@ ("YEAR" :> cleanCol(r, "YEAR"))
  @@ ("ISSUE" :> Issue(rowReasons(v, r), "; "))

\* rows failing validation: logged by csv and v2, skipped by v1
routeInvalid(v, r, i) ==
  IF v = "v1" THEN NoRoute ELSE [NoRoute EXCEPT !.inv = <<invalidEntry(v, r, i)>>]

\* the row is dropped without a trace
routeNotFoundDropped(v, r, amount, mode) == NoRoute

routeNotFound(v, r, amount, mode) ==
  [NoRoute EXCEPT !.exc = <<exceptionEntry(
      IF v = "v1" THEN rowRawName(r) ELSE clean(rowRawName(r)),
      amount, mode, rowMonth(r), rowYear(v, r),
      Issue(<<"Supplier not found in banking-details.csv">>, ""))>>]

ledgerEntryOf(v, r, supplier, amount, mode) ==
  LedgerEntry(rowMonth(r), NumToStr(rowYear(v, r)), rowPeriod(v, r),
              rowRawName(supplier), money(amount), mode, rowReference(v, r))

bankIssue(v, account, branch) ==
  IF v = "v2"
  THEN Issue((IF account = <<>> THEN <<"Missing Bank Account">> ELSE <<>>)
             \o (IF branch = <<>> THEN <<"Missing Branch Code">> ELSE <<>>), ", ")
  ELSE Issue(<<"Missing ACCOUNT or BRANCH">>, "")

routeBank(v, r, supplier, amount) ==
  LET account == cleanCol(supplier, "ACCOUNT")
      branch == cleanCol(supplier, "BRANCH")
  IN IF account = <<>> \/ branch = <<>>
     THEN [NoRoute EXCEPT !.exc = <<exceptionEntry(rowRawName(supplier), amount, BANK,
                                      rowMonth(r), rowYear(v, r),
                                      bankIssue(v, account, branch))>>]
     ELSE [NoRoute EXCEPT
             !.bank = <<("NAME" :> rowRawName(supplier)) @@ ("ACCOUNT" :> account)
                        @@ ("BRANCH" :> branch) @@ ("AMOUNT" :> money(amount))
                        @@ ("COMMENT" :> rowReference(v, r))>>,
             !.led = <<ledgerEntryOf(v, r, supplier, amount, BANK)>>]

\* v1 and csv require the provider and the number; v2 also the holder name
momoIncomplete(v, provider, number, names) ==
  IF v = "v2" THEN provider = <<>> \/ number = <<>> \/ names = <<>>
  ELSE provider = <<>> \/ number = <<>>

momoIssue(v, provider, number, names) ==
  IF v = "v2"
  THEN Issue((IF provider = <<>> THEN <<"Missing MOMO Provider">> ELSE <<>>)
             \o (IF number = <<>> THEN <<"Missing MOMO Number">> ELSE <<>>)
             \o (IF names = <<>> THEN <<"Missing MOMO Names">> ELSE <<>>), ", ")
  ELSE Issue(<<"Missing MOMO or MOMO NUMBER">>, "")

\* the MoMo branch without its ledgerNew.push
routeMomoNoLedger(v, r, supplier, amount) ==
  [NoRoute EXCEPT
     !.momo = <<("NAME" :> rowRawName(supplier))
                @@ ("MOMO PROVIDER" :> cleanCol(supplier, "MOMO"))
                @@ ("MOMO NUMBER" :> cleanCol(supplier, "MOMO NUMBER"))
                @@ ("MOMO NAMES" :> cleanCol(supplier, "MOMO NAMES"))
                @@ ("AMOUNT" :> money(amount))
                @@ ("COMMENT" :> rowReference(v, r))>>]

routeMomo(v, r, supplier, amount) ==
  LET provider == cleanCol(supplier, "MOMO")
      number == cleanCol(supplier, "MOMO NUMBER")
      names == cleanCol(supplier, "MOMO NAMES")
  IN IF momoIncomplete(v, provider, number, names)
     THEN [NoRoute EXCEPT !.exc = <<exceptionEntry(rowRawName(supplier), amount, MOMO,
                                      rowMonth(r), rowYear(v, r),
                                      momoIssue(v, provider, number, names))>>]
     ELSE [NoRoute EXCEPT
             !.momo = <<("NAME" :> rowRawName(supplier)) @@ ("MOMO PROVIDER" :> provider)
                        @@ ("MOMO NUMBER" :> number) @@ ("MOMO NAMES" :> names)
                        @@ ("AMOUNT" :> money(amount))
                        @@ ("COMMENT" :> rowReference(v, r))>>,
             !.led = <<ledgerEntryOf(v, r, supplier, amount, MOMO)>>]

\* a row that passed validation
routeValid(v, r, amount, mode, banking) ==
  IF ~hasSupplier(banking, rowNameKey(r))
  THEN routeNotFound(v, r, amount, mode)
  ELSE IF mode = BANK
       THEN routeBank(v, r, supplierOf(banking, rowNameKey(r)), amount)
       ELSE routeMomo(v, r, supplierOf(banking, rowNameKey(r)), amount)

routeAmount(v, r, amount, threshold, banking) ==
  routeValid(v, r, amount, classifyMode(amount, threshold), banking)

\* the body of the row loop for sales[i] (i counted from 0)
routeRow(v, r, i, threshold, banking) ==
  IF rowReasons(v, r) # <<>> THEN routeInvalid(v, r, i)
  ELSE routeAmount(v, r, rowAmount(v, r), threshold, banking)

\* isAllEmptyRow(obj)
isAllEmptyRow(r) == \A c \in DOMAIN r : clean(r[c]) = <<>>

RequiredCols == <<"COMPANY NAME", "SUM of COST", "MONTH", "YEAR">>

\* a check of the first required column only
missingColsNameOnly(sales) ==
  SelectSeq(SubSeq(RequiredCols, 1, 1), LAMBDA c : sales = <<>> \/ ~Has(sales[1], c))

\* requiredCols.filter(c => !hasOwnProperty(sales[0] || {}, c))
missingCols(sales) ==
  SelectSeq(RequiredCols, LAMBDA c : sales = <<>> \/ ~Has(sales[1], c))

\* rows.reduce((a, r) => a + (parseAmount(r["AMOUNT"]) || 0), 0)
RECURSIVE amountTotal(_)
amountTotal(rows) ==
  IF rows = <<>> THEN 0
  ELSE LET x == parseAmount(rows[Len(rows)]["AMOUNT"])
       IN amountTotal(SubSeq(rows, 1, Len(rows) - 1)) + (IF isFinite(x) THEN x ELSE 0)

\* ------------------------------------------------------------------------
\* The raw-to-summary stage (v2): parseRawSalesReport
\* ------------------------------------------------------------------------
HdrCompanyName == <<"C","O","M","P","A","N","Y"," ","N","A","M","E">>
HdrCost == <<"C","O","S","T">>

isAllEmptyArrayRow(row) == \A k \in 1..Len(row) : clean(row[k]) = <<>>

normHeader(s) == collapseSpaces(toUpperCase(clean(s)))

\* map.get(key) of the header map of a row, as a 1-based column (0: absent);
\* map.set overwrites, so the last column with the label wins
headerCol(row, key) ==
  LET hits == {k \in 1..Len(row) : normHeader(row[k]) = key}
  IN IF hits = {} THEN 0 ELSE SetMax(hits)

\* findHeaderRow(rows): the first row holding COMPANY NAME and COST (0: none)
findHeaderRow(rows) ==
  LET hits == {k \in 1..Len(rows) :
                 headerCol(rows[k], HdrCompanyName) > 0 /\ headerCol(rows[k], HdrCost) > 0}
  IN IF hits = {} THEN 0 ELSE SetMin(hits)

\* row[idx] || ""
cellAt(row, col) == IF col >= 1 /\ col <= Len(row) THEN row[col] ELSE <<>>

rawReasons(company, cost) ==
  (IF company = <<>> THEN <<"Missing COMPANY NAME">> ELSE <<>>)
  \o (IF ~isFinite(cost) THEN <<"Invalid COST (not a number)">> ELSE <<>>)

RawAcc0 ==
  [keys |-> <<>>, sums |-> <<>>, names |-> <<>>, invalidRows |-> <<>>,
   nonEmpty |-> 0, rawTotal |-> 0]

\* invalidRows.push({ ROW_NUMBER, "COMPANY NAME", COST, ISSUE })
rawInvalid(acc, company, costRaw, reasons, rowNumber) ==
  [acc EXCEPT
     !.nonEmpty = @ + 1,
     !.invalidRows = Append(@,
        ("ROW_NUMBER" :> rowNumber) @@ ("COMPANY NAME" :> company)
        @@ ("COST" :> clean(costRaw)) @@ ("ISSUE" :> Issue(reasons, "; ")))]

\* totals.set(key, cost): a repeated supplier overwrites its total
rawAddOverwrites(acc, company, cost, key, at) ==
  IF at = 0
  THEN [acc EXCEPT !.nonEmpty = @ + 1,
                   !.keys = Append(@, key),
                   !.names = Append(@, company),
                   !.sums = Append(@, cost),
                   !.rawTotal = @ + cost]
  ELSE [acc EXCEPT !.nonEmpty = @ + 1,
                   !.names[at] = company,
                   !.sums[at] = cost,
                   !.rawTotal = @ + cost]

\* totals.set(key, (totals.get(key) || 0) + cost); displayName.set(key, company)
rawAdd(acc, company, cost, key, at) ==
  IF at = 0
  THEN [acc EXCEPT !.nonEmpty = @ + 1,
                   !.keys = Append(@, key),
                   !.names = Append(@, company),
                   !.sums = Append(@, cost),
                   !.rawTotal = @ + cost]
  ELSE [acc EXCEPT !.nonEmpty = @ + 1,
                   !.names[at] = company,
                   !.sums[at] = @ + cost,
                   !.rawTotal = @ + cost]

\* const key = company: every spelling of a name is a supplier of its own
rawValidateBySpelling(acc, company, costRaw, cost, rowNumber) ==
  IF rawReasons(company, cost) # <<>>
  THEN rawInvalid(acc, company, costRaw, rawReasons(company, cost), rowNumber)
  ELSE rawAdd(acc, company, cost, company, IndexIn(company, acc.keys))

rawValidate(acc, company, costRaw, cost, rowNumber) ==
  IF rawReasons(company, cost) # <<>>
  THEN rawInvalid(acc, company, costRaw, rawReasons(company, cost), rowNumber)
  ELSE rawAdd(acc, company, cost, normName(company), IndexIn(normName(company), acc.keys))

rawCells(acc, company, costRaw, rowNumber) ==
  rawValidate(acc, company, costRaw, parseAmount(costRaw), rowNumber)

\* one call of the dataRows.forEach callback; hdr = 1-based header row,
\* idx = 0-based position of the row among the data rows
rawStep(acc, row, idx, hdr, nameCol, costCol) ==
  IF isAllEmptyArrayRow(row) THEN acc
  ELSE rawCells(acc, clean(cellAt(row, nameCol)), cellAt(row, costCol), (hdr - 1) + 2 + idx)

RECURSIVE rawAccumulate(_, _, _, _, _)
rawAccumulate(dataRows, n, hdr, nameCol, costCol) ==
  IF n = 0 THEN RawAcc0
  ELSE rawStep(rawAccumulate(dataRows, n - 1, hdr, nameCol, costCol),
               dataRows[n], n - 1, hdr, nameCol, costCol)

summaryRowOf(company, sum, title, period) ==
  ("COMPANY NAME" :> company) @@ ("SUM of COST" :> money(sum)) @@ ("COMMENT" :> title)
  @@ ("MONTH" :> period.month) @@ ("YEAR" :> NumToStr(period.year))

\* rows.reduce((a, r) => a + (parseAmount(r["SUM of COST"]) || 0), 0)
RECURSIVE summaryTotalOf(_)
summaryTotalOf(rows) ==
  IF rows = <<>> THEN 0
  ELSE LET x == parseAmount(rows[Len(rows)]["SUM of COST"])
       IN summaryTotalOf(SubSeq(rows, 1, Len(rows) - 1)) + (IF isFinite(x) THEN x ELSE 0)

RawError(msg) ==
  [error |-> msg, summaryRows |-> <<>>, invalidRows |-> <<>>, title |-> <<>>,
   month |-> <<>>, year |-> NaN,
   metrics |-> [parsedRowCount |-> 0, nonEmpty |-> 0, invalidCount |-> 0,
                suppliers |-> 0, rawTotal |-> 0, summaryTotal |-> 0]]

rawResult(title, period, parsedRowCount, acc, srows) ==
  [error |-> "", summaryRows |-> srows, invalidRows |-> acc.invalidRows,
   title |-> title, month |-> period.month, year |-> period.year,
   metrics |-> [parsedRowCount |-> parsedRowCount, nonEmpty |-> acc.nonEmpty,
                invalidCount |-> Len(acc.invalidRows),
                suppliers |-> Len(srows), rawTotal |-> acc.rawTotal,
                summaryTotal |-> summaryTotalOf(srows)]]

\* summaryRows: one row per supplier key, in first-seen order
rawSummarise(title, period, parsedRowCount, acc) ==
  rawResult(title, period, parsedRowCount, acc,
            [k \in 1..Len(acc.keys) |->
               summaryRowOf(acc.names[k], acc.sums[k], title, period)])

rawFromHeader(rows, title, period, hdr) ==
  IF ~period.ok
  THEN RawError("Could not extract MONTH and YEAR from the title.")
  ELSE IF hdr = 0
  THEN RawError("Could not find header row with COMPANY NAME and COST.")
  ELSE rawSummarise(title, period, Len(rows) - hdr,
                    rawAccumulate(SubSeq(rows, hdr + 1, Len(rows)), Len(rows) - hdr, hdr,
                                  headerCol(rows[hdr], HdrCompanyName),
                                  headerCol(rows[hdr], HdrCost)))

rawFromTitle(rows, title) ==
  IF title = <<>> THEN RawError("Missing title in A1 (or first row).")
  ELSE rawFromHeader(rows, title, parseMonthYearFromText("v2", title), findHeaderRow(rows))

\* const title = clean((rows[0] || []).find(v => clean(v)) || "")
rawTitleOf(first) ==
  LET filled == {k \in 1..Len(first) : clean(first[k]) # <<>>}
  IN IF filled = {} THEN <<>> ELSE clean(first[SetMin(filled)])

parseRawSalesReport(rows) ==
  rawFromTitle(rows, rawTitleOf(IF rows = <<>> THEN <<>> ELSE rows[1]))

\* const verifyOk = Math.abs(m.rawTotal - m.summaryTotal) < 0.01
rawVerifyOk(m) == Abs(m.rawTotal - m.summaryTotal) < Cent

\* ------------------------------------------------------------------------
\* Inputs: the files an operator can hand to the page
\* ------------------------------------------------------------------------
SalesRow(name, cost, comment, month, year) ==
  ("COMPANY NAME" :> name) @@ ("SUM of COST" :> cost) @@ ("COMMENT" :> comment)
  @@ ("MONTH" :> month) @@ ("YEAR" :> year)

BankingRow(name, bank, account, branch, momo, number, names) ==
  ("COMPANY NAME" :> name) @@ ("BANK" :> bank) @@ ("ACCOUNT" :> account)
  @@ ("BRANCH" :> branch) @@ ("MOMO" :> momo) @@ ("MOMO NUMBER" :> number)
  @@ ("MOMO NAMES" :> names)

\* rows of a monthly sales CSV (template v2 columns)
SalesRowChoices == {
  SalesRow(<<"A","c","m","e"," ","C","o">>, <<"4","0","0">>, <<>>, <<"J","a","n","u","a","r","y">>, <<"2","0","2","6">>),
  SalesRow(<<" ","a","c","m","e"," "," ","c","o"," ">>, <<"3","9","9">>, <<>>, <<"J","a","n","u","a","r","y">>, <<"2","0","2","6">>),
  SalesRow(<<"B","o","b">>, <<"4","0","0">>, <<>>, <<"J","a","n","u","a","r","y">>, <<"2","0","2","6">>),
  SalesRow(<<"B","o","b">>, <<"3","9","9">>, <<>>, <<"J","a","n","u","a","r","y">>, <<"2","0","2","6">>),
  SalesRow(<<"Z","e","d">>, <<"3","9","9">>, <<>>, <<"J","a","n","u","a","r","y">>, <<"2","0","2","6">>),
  SalesRow(<<>>, <<"4","0","0">>, <<>>, <<"J","a","n","u","a","r","y">>, <<"2","0","2","6">>),
  SalesRow(<<"A","c","m","e"," ","C","o">>, <<"N","/","A">>, <<>>, <<"J","a","n","u","a","r","y">>, <<"2","0","2","6">>),
  SalesRow(<<"A","c","m","e"," ","C","o">>, <<"1",",","2","0","0",".","0","0">>, <<"J","a","n"," ","p","a","y">>, <<"J","a","n","u","a","r","y">>, <<"2","0","2","6">>),
  SalesRow(<<"A","c","m","e"," ","C","o">>, <<"4","0","0">>, <<>>, <<>>, <<"2","0","2","6">>),
  SalesRow(<<"A","c","m","e"," ","C","o">>, <<"4","0","0">>, <<>>, <<"J","a","n">>, <<"2","0","2","6">>),
  SalesRow(<<"A","c","m","e"," ","C","o">>, <<"4","0","0">>, <<>>, <<"J","a","n","u","a","r","y">>, <<>>),
  SalesRow(<<>>, <<>>, <<>>, <<>>, <<>>),
  SalesRow(<<>>, <<"4","0","0">>, <<>>, <<"J","a","n","u","a","r","y">>, <<>>),
  SalesRow(<<>>, <<"N","/","A">>, <<>>, <<>>, <<"x">>)
}

RECURSIVE SeqsUpTo(_, _)
SeqsUpTo(S, n) ==
  IF n = 0 THEN {<<>>}
  ELSE LET shorter == SeqsUpTo(S, n - 1)
       IN shorter \cup {Append(s, x) : s \in {q \in shorter : Len(q) = n - 1}, x \in S}

\* a CSV whose header row lacks the YEAR column
dropCol(r, c) == [k \in (DOMAIN r) \ {c} |-> r[k]]

SalesFiles ==
  SeqsUpTo(SalesRowChoices, MaxRows)
  \cup {<<dropCol(SalesRow(<<"A","c","m","e"," ","C","o">>, <<"4","0","0">>, <<>>, <<"J","a","n","u","a","r","y">>, <<"2","0","2","6">>), "YEAR")>>}

\* data/banking-details.csv; Acme Co stands in it twice, spelled differently
BankingFile == <<
  BankingRow(<<" ", "a", "c", "m", "e", " ", " ", "C", "O">>, <<"O", "L", "D">>, <<"0", "0", "0">>, <<>>, <<>>, <<>>, <<>>),
  BankingRow(<<"A","c","m","e"," ","C","o">>, <<"F","N","B">>, <<"1","1","1">>, <<"0","1">>, <<"M","p","e","s","a">>, <<"5","5","5">>, <<"A","n","n">>),
  BankingRow(<<"B","o","b">>, <<"S","L","B">>, <<"2","2","2">>, <<>>, <<"E","c","o">>, <<"6","6","6">>, <<" ">>),
  BankingRow(<<"C","a","t">>, <<>>, <<>>, <<"0","3">>, <<>>, <<"7","7","7">>, <<"C","y">>),
  BankingRow(<<"D","a","n">>, <<>>, <<>>, <<>>, <<"M","p","e","s","a">>, <<>>, <<>>)
>>

BankingFiles == {BankingFile}

\* data/transactions.csv: absent or empty, or holding, in the order a pass
\* leaves them in, canonical rows, rows of a legacy schema (COMPANY, TOTAL,
\* PERIOD) and a row with an unrecognised month
LedgerFile == <<
  ("COMPANY" :> <<"C","a","t">>) @@ ("TOTAL" :> <<"7">>) @@ ("PERIOD" :> <<"o","l","d">>),
  LedgerEntry(<<"D","e","c","e","m","b","e","r">>, <<"2","0","2","5">>, <<"D","e","c","e","m","b","e","r"," ","2","0","2","5">>, <<"A","c","m","e"," ","C","o">>, <<"4","0","0",".","0","0">>, <<"B","A","N","K">>, <<"M","i","L","C","o"," ","D","e","c","e","m","b","e","r"," ","2","0","2","5"," ","S","a","l","e","s">>),
  LedgerEntry(<<"F","e","b","r","u","a","r","y">>, <<"2","0","2","6">>, <<"F","e","b","r","u","a","r","y"," ","2","0","2","6">>, <<"B","o","b">>, <<"2","0",".","0","0">>, <<"M","O","M","O">>, <<"F","e","b">>),
  ("COMPANY" :> <<"B","o","b">>) @@ ("TOTAL" :> <<"1","2",".","5">>) @@ ("PERIOD" :> <<"M","i","L","C","o"," ","O","c","t","o","b","e","r"," ","2","0","2","6"," ","S","a","l","e","s">>),
  LedgerEntry(<<"J","a","n">>, <<"2","0","2","6">>, <<"J","a","n"," ","2","0","2","6">>, <<"A","c","m","e"," ","C","o">>, <<"4","0","0",".","0","0">>, <<"B","A","N","K">>, <<"x">>)
>>

LedgerFiles == {<<>>, LedgerFile}

\* the Bank threshold field
ThresholdChoices == {400 * Scale}

\* raw POS sheets: a title row, a header row, data rows (company, cost)
RawTitle == <<"M","I","L","C","O"," ","J","A","N","U","A","R","Y"," ","S","A","L","E","S"," ","2","0","2","6">>
RawHeader == <<HdrCompanyName, HdrCost>>

RawRowChoices == {
  <<<<"A","c","m","e"," ","C","o">>, <<"4","0","0">>>>,
  <<<<"a","c","m","e"," "," ","c","o">>, <<"0",".","0","0","4">>>>,
  <<<<"B","o","b">>, <<"3","9","9">>>>,
  <<<<"C","a","t">>, <<"0",".","0","0","4">>>>,
  <<<<"Z","e","d">>, <<"0",".","0","0","4">>>>,
  <<<<>>, <<"N","/","A">>>>,
  <<<<>>, <<>>>>
}

RawSheets ==
  {<< <<RawTitle>>, RawHeader >> \o d : d \in SeqsUpTo(RawRowChoices, MaxRawRows)}
  \cup {<< <<>> >>,
        << <<<<"S","A","L","E","S">>>>, RawHeader >>,
        << <<RawTitle>>, <<HdrCompanyName>> >>}

\* ------------------------------------------------------------------------
\* State
\* ------------------------------------------------------------------------
VARIABLES
  build,          \* which build of admin.js the page runs: "v1", "csv", "v2"
  summaryRows,    \* module state of v2 (let summaryRows); [] while summaryNull
  summaryNull,    \* summaryRows === null
  summaryStatus,  \* $("summaryStatus").textContent
  summaryInvalid, \* the invalid-raw-rows download: the sheet read and parsed.invalidRows
  rawRead,        \* history: the sheet summaryRows was generated from
  rawVerify,      \* the raw verification box: visible, totals, verifyOk
  spc,            \* generateSummaryBtn handler: "idle" or "await" (reading the file)
  pc,             \* processBtn handler: "idle", "await", "rows", "done", "crashed"
  awaiting,       \* the runs of the processBtn handler suspended at their await:
                  \* the threshold each one read and the summary it found
  checked,        \* history of the pass: the summary it found when it was clicked,
                  \* whether its download of the ledger succeeded
  threshold,      \* const threshold
  banking,        \* parsed data/banking-details.csv
  ledgerExisting, \* normalizeLedgerRows(ledgerExistingRaw)
  salesRaw,       \* const salesRaw: the sales rows as uploaded or generated
  sales,          \* the non-empty sales rows
  nonEmpty,       \* sales.length
  parsedRowCount, \* salesRaw.length
  i,              \* loop index of the row loop
  bankBatch, momoBatch, exceptions, invalidRows, ledgerNew,
  routed,         \* history: what each processed row appended (routeRow results)
  ledgerUpdated,  \* the merged, sorted ledger
  totalPayable,   \* const totalPayable (v2), NaN while not computed
  files,          \* names of the download buttons rendered
  verify,         \* the verification box
  status,         \* $("status").textContent
  ledgerFile,     \* data/transactions.csv as served: its rows, how often the
                  \* operator replaced it, and the inputs of the pass it came from
  registry,       \* the registry update handler: its script, position, inputs,
                  \* parsed sheets, generated rows, counters and status
  nameProbe       \* one supplier name: its spelling in the registry, its key in
                  \* the supplier map, the spelling and the key of a lookup

summaryVars == <<summaryRows, summaryNull, summaryStatus, summaryInvalid, rawRead, rawVerify,
                 spc>>
passVars == <<pc, awaiting, checked, threshold, banking, ledgerExisting, salesRaw, sales,
              nonEmpty, parsedRowCount, i,
              bankBatch, momoBatch, exceptions, invalidRows, ledgerNew, routed,
              ledgerUpdated, totalPayable, files, verify, status>>
\* what the summary and process handlers leave alone
restVars == <<build, nameProbe, registry, ledgerFile>>
vars == <<summaryVars, passVars, restVars>>

Builds == {"v1", "csv", "v2"}

\* $("status").textContent: the message and the column names joined into it
statusText(text) == [text |-> text, cols |-> <<>>]

VerifyHidden == [visible |-> FALSE, verificationOk |-> FALSE, reportsTotal |-> FALSE]
RawVerifyHidden == [visible |-> FALSE, rawTotal |-> 0, summaryTotal |-> 0,
                    verifyOk |-> FALSE]

\* no invalid-raw-rows download is offered
NoRawInvalid == [sheet |-> <<>>, rows |-> <<>>]

\* the history of a pass that has not come back from its await
NothingChecked == [summary |-> <<>>, ledgerOk |-> TRUE]

\* the page before any click
PageIdle ==
  /\ summaryRows = <<>> /\ summaryNull = TRUE
  /\ summaryStatus = "" /\ rawVerify = RawVerifyHidden /\ spc = "idle"
  /\ summaryInvalid = NoRawInvalid /\ rawRead = <<>>
  /\ pc = "idle" /\ awaiting = <<>> /\ checked = NothingChecked
  /\ threshold = 0 /\ banking = <<>> /\ ledgerExisting = <<>>
  /\ salesRaw = <<>> /\ sales = <<>> /\ nonEmpty = 0 /\ parsedRowCount = 0 /\ i = 0
  /\ bankBatch = <<>> /\ momoBatch = <<>> /\ exceptions = <<>> /\ invalidRows = <<>>
  /\ ledgerNew = <<>> /\ routed = <<>> /\ ledgerUpdated = <<>> /\ totalPayable = NaN
  /\ files = <<>> /\ verify = VerifyHidden /\ status = statusText("")

NoProbe == [stored |-> <<>>, indexKey |-> <<>>, text |-> <<>>, nameKey |-> <<>>,
            at |-> "none"]

\* the registry update handler before any click
RegistryIdle(script) ==
  [script |-> script, at |-> "idle", status |-> "", downloads |-> 0,
   csv |-> <<>>, hasSales |-> FALSE, hasMomo |-> FALSE,
   salesSheet |-> <<>>, momoSheet |-> <<>>,
   salesMap |-> <<>>, momoMap |-> <<>>,
   rows |-> <<>>, updatedCount |-> 0, addedCount |-> 0]

\* data/transactions.csv as deployed
ServedLedger(rows) ==
  [rows |-> rows, replaced |-> 0, sales |-> <<>>, banking |-> <<>>, threshold |-> 0]

Init ==
  /\ build \in Builds
  /\ PageIdle
  /\ nameProbe = NoProbe
  /\ registry = RegistryIdle("admin")
  /\ \E l \in LedgerFiles : ledgerFile = ServedLedger(l)

\* the locals of a process handler that is not running
PassLocalsCleared ==
  /\ checked' = NothingChecked
  /\ banking' = <<>> /\ ledgerExisting' = <<>>
  /\ salesRaw' = <<>> /\ sales' = <<>> /\ nonEmpty' = 0 /\ parsedRowCount' = 0 /\ i' = 0
  /\ bankBatch' = <<>> /\ momoBatch' = <<>> /\ exceptions' = <<>> /\ invalidRows' = <<>>
  /\ ledgerNew' = <<>> /\ routed' = <<>> /\ ledgerUpdated' = <<>> /\ totalPayable' = NaN

\* the handlers run to completion: nothing else runs inside the row loop
NoHandlerRunning == pc # "rows"

\* ------------------------------------------------------------------------
\* generateSummaryBtn (v2)
\* ------------------------------------------------------------------------
\* a click that leaves the summary of the earlier attempt in place
SummaryClickKeeps(hasFile) ==
  /\ build = "v2" /\ spc = "idle" /\ NoHandlerRunning
  /\ UNCHANGED <<summaryRows, summaryNull, rawRead>>
  /\ summaryInvalid' = NoRawInvalid
  /\ rawVerify' = RawVerifyHidden
  /\ IF hasFile
     THEN summaryStatus' = "Reading raw XLSX..." /\ spc' = "await"
     ELSE summaryStatus' = "Please choose a raw sales XLSX file first." /\ spc' = "idle"
  /\ IF pc \in {"done", "crashed"}
     THEN pc' = "idle" /\ threshold' = 0 /\ PassLocalsCleared
          /\ UNCHANGED <<awaiting, files, verify, status>>
     ELSE UNCHANGED passVars
  /\ UNCHANGED restVars

\* click, up to `await readXlsxFile(file)`
SummaryClick(hasFile) ==
  /\ build = "v2" /\ spc = "idle" /\ NoHandlerRunning
  /\ summaryRows' = <<>> /\ summaryNull' = TRUE
  /\ summaryInvalid' = NoRawInvalid /\ rawRead' = <<>>
  /\ rawVerify' = RawVerifyHidden
  /\ IF hasFile
     THEN summaryStatus' = "Reading raw XLSX..." /\ spc' = "await"
     ELSE summaryStatus' = "Please choose a raw sales XLSX file first." /\ spc' = "idle"
  \* the locals of a finished pass are gone; what it rendered stays
  /\ IF pc \in {"done", "crashed"}
     THEN pc' = "idle" /\ threshold' = 0 /\ PassLocalsCleared
          /\ UNCHANGED <<awaiting, files, verify, status>>
     ELSE UNCHANGED passVars
  /\ UNCHANGED restVars

\* the handler after parseRawSalesReport returned
renderSummary(parsed, sheet) ==
  IF parsed.error # ""
  THEN /\ summaryStatus' = parsed.error
       /\ UNCHANGED <<summaryRows, summaryNull, summaryInvalid, rawRead, rawVerify>>
  ELSE /\ summaryRows' = parsed.summaryRows /\ summaryNull' = FALSE
       /\ rawRead' = sheet
       /\ IF parsed.summaryRows = <<>>
          THEN /\ summaryStatus' = "No valid data rows found after the header."
               /\ UNCHANGED <<summaryInvalid, rawVerify>>
          ELSE /\ summaryStatus' = "Summary ready."
               /\ summaryInvalid' = IF parsed.invalidRows = <<>> THEN NoRawInvalid
                                    ELSE [sheet |-> sheet, rows |-> parsed.invalidRows]
               /\ rawVerify' = [visible |-> TRUE,
                                rawTotal |-> parsed.metrics.rawTotal,
                                summaryTotal |-> parsed.metrics.summaryTotal,
                                verifyOk |-> rawVerifyOk(parsed.metrics)]

\* the file was read (or reading failed): the rest of the handler
SummaryResume(readOk, sheet) ==
  /\ spc = "await" /\ NoHandlerRunning
  /\ spc' = "idle"
  /\ IF ~readOk
     THEN /\ summaryStatus' = "Failed to read XLSX"
          /\ UNCHANGED <<summaryRows, summaryNull, summaryInvalid, rawRead, rawVerify>>
     ELSE renderSummary(parseRawSalesReport(sheet), sheet)
  /\ UNCHANGED <<restVars, passVars>>

\* ------------------------------------------------------------------------
\* processBtn
\* ------------------------------------------------------------------------
\* click, up to `await Promise.all([...])`
ProcessClick(t, hasFile) ==
  /\ NoHandlerRunning /\ Len(awaiting) < MaxInFlight
  /\ PassLocalsCleared
  /\ files' = <<>>
  /\ verify' = IF build = "v1" THEN verify ELSE VerifyHidden
  /\ IF build = "v2" /\ (summaryNull \/ summaryRows = <<>>)
     THEN /\ status' = statusText("Please generate the Monthly Sales Summary (XLSX) first.")
          /\ pc' = "idle" /\ threshold' = 0
          /\ UNCHANGED awaiting
     ELSE IF build # "v2" /\ ~hasFile
     THEN /\ status' = statusText("Please choose a monthly sales report CSV first.")
          /\ pc' = "idle" /\ threshold' = 0
          /\ UNCHANGED awaiting
     ELSE /\ status' = statusText("Loading banking details + ledger...")
          /\ pc' = "await" /\ threshold' = t
          /\ awaiting' = Append(awaiting, [threshold |-> t, summary |-> summaryRows])
  /\ UNCHANGED <<restVars, summaryVars>>

TemplateMismatch == "Sales report template mismatch. Missing column(s): "

\* const sales = salesRaw.filter(r => !isAllEmptyRow(r)) and the column check
startRows(t, bankingRows, ledgerRaw, uploaded, kept) ==
  /\ threshold' = t
  /\ banking' = bankingRows
  /\ ledgerExisting' = normalizeLedgerRows(build, ledgerRaw)
  /\ salesRaw' = uploaded
  /\ sales' = kept /\ nonEmpty' = Len(kept)
  /\ parsedRowCount' = Len(uploaded)
  /\ IF missingCols(kept) # <<>>
     THEN \* the handler returns: its locals stay as they were at the return
          /\ status' = [text |-> TemplateMismatch, cols |-> missingCols(kept)]
          /\ pc' = "idle"
     ELSE /\ pc' = "rows"
          /\ UNCHANGED status

keepRows(v, uploaded) ==
  IF v = "v1" THEN uploaded ELSE SelectSeq(uploaded, LAMBDA r : ~isAllEmptyRow(r))

\* what parseCsvUrl settles with: the rows of the file, or a rejection
Loaded(rows) == [ok |-> TRUE, rows |-> rows]
LoadFailed == [ok |-> FALSE, rows |-> <<>>]

\* a catch that falls back on the ledger as deployed
caughtRowsStale(read) == IF read.ok THEN read.rows ELSE LedgerFile

\* parseCsvUrl(LEDGER_URL).catch(() => [])
caughtRows(read) == IF read.ok THEN read.rows ELSE <<>>

\* the locals of a run whose await threw: it read its threshold and no more
endedAtAwait(t) ==
  /\ pc' = "crashed"
  /\ threshold' = t
  /\ banking' = <<>> /\ ledgerExisting' = <<>>
  /\ salesRaw' = <<>> /\ sales' = <<>> /\ nonEmpty' = 0 /\ parsedRowCount' = 0
  /\ UNCHANGED status

\* s without its element k
dropAt(s, k) == SubSeq(s, 1, k - 1) \o SubSeq(s, k + 1, Len(s))

\* Promise.all settled for the run k of the suspended ones: that run of the
\* handler up to the row loop
ProcessResume(k, bankingRead, ledgerRead, fileRows) ==
  /\ NoHandlerRunning /\ k \in 1..Len(awaiting)
  /\ awaiting' = dropAt(awaiting, k)
  /\ checked' = [summary |-> awaiting[k].summary, ledgerOk |-> ledgerRead.ok]
  /\ IF ~bankingRead.ok
     THEN \* Promise.all rejects and nothing catches it: the handler ends here
          endedAtAwait(awaiting[k].threshold)
     ELSE IF build = "v2" /\ summaryNull
     THEN \* salesRaw.length of null throws: the handler ends here
          endedAtAwait(awaiting[k].threshold)
     ELSE IF build = "v2"
          THEN startRows(awaiting[k].threshold, bankingRead.rows, caughtRows(ledgerRead), summaryRows,
                         keepRows(build, summaryRows))
          ELSE startRows(awaiting[k].threshold, bankingRead.rows, caughtRows(ledgerRead), fileRows,
                         keepRows(build, fileRows))
  \* the row loop of this run starts with its own empty batches
  /\ i' = 0
  /\ bankBatch' = <<>> /\ momoBatch' = <<>> /\ exceptions' = <<>> /\ invalidRows' = <<>>
  /\ ledgerNew' = <<>> /\ routed' = <<>> /\ ledgerUpdated' = <<>> /\ totalPayable' = NaN
  /\ UNCHANGED <<restVars, summaryVars, files, verify>>

\* what one iteration pushes
pushRoute(rt) ==
  /\ bankBatch' = bankBatch \o rt.bank
  /\ momoBatch' = momoBatch \o rt.momo
  /\ exceptions' = exceptions \o rt.exc
  /\ invalidRows' = invalidRows \o rt.inv
  /\ ledgerNew' = ledgerNew \o rt.led
  /\ routed' = Append(routed, rt)

\* one iteration of `for (let i = 0; i < sales.length; i++)`
ProcessRow ==
  /\ pc = "rows" /\ i < Len(sales)
  /\ pushRoute(routeRow(build, sales[i + 1], i, threshold, banking))
  /\ i' = i + 1
  /\ UNCHANGED <<restVars, summaryVars, pc, awaiting, checked, threshold, banking,
                 ledgerExisting, salesRaw, sales, nonEmpty, parsedRowCount, ledgerUpdated, totalPayable, files,
                 verify, status>>

mergeLedgerDeduplicated(existing, new) ==
  sortLedger(existing \o SelectSeq(new, LAMBDA e : ~\E k \in 1..Len(existing) : existing[k] = e))

\* const ledgerUpdated = [...ledgerExisting, ...ledgerNew]; ledgerUpdated.sort(...)
mergeLedger(existing, new) == sortLedger(existing \o new)

passFiles(v, exc, inv) ==
  <<"bank-payment-batch", "momo-payment-batch", "transactions">>
  \o (IF exc # <<>> THEN <<"exceptions">> ELSE <<>>)
  \o (IF v # "v1" /\ inv # <<>> THEN <<"invalid-rows">> ELSE <<>>)

\* a total that leaves the exceptions out
totalPayableNoExceptions(bank, momo, exc) == amountTotal(bank) + amountTotal(momo)

\* const totalPayable = bankTotal + momoTotal + excTotal
totalPayableOf(bank, momo, exc) ==
  amountTotal(bank) + amountTotal(momo) + amountTotal(exc)

\* the verification summary: csv and v2 count the buckets, v2 also totals them
verifyOf(v, n, bank, momo, exc, inv) ==
  [visible |-> TRUE,
   verificationOk |-> (n = Len(bank) + Len(momo) + Len(exc) + Len(inv)),
   reportsTotal |-> (v = "v2")]

\* after the row loop: merge the ledger, render the downloads and the verification
FinishPass ==
  /\ pc = "rows" /\ i = Len(sales)
  /\ ledgerUpdated' = mergeLedger(ledgerExisting, ledgerNew)
  /\ totalPayable' = IF build = "v2"
                     THEN totalPayableOf(bankBatch, momoBatch, exceptions)
                     ELSE NaN
  /\ files' = passFiles(build, exceptions, invalidRows)
  /\ verify' = IF build = "v1" THEN verify
               ELSE verifyOf(build, nonEmpty, bankBatch, momoBatch, exceptions, invalidRows)
  /\ status' = statusText("Done")
  /\ pc' = "done"
  /\ UNCHANGED <<restVars, summaryVars, awaiting, checked, threshold, banking,
                 ledgerExisting, salesRaw, sales, nonEmpty,
                 parsedRowCount, i, bankBatch, momoBatch, exceptions, invalidRows,
                 ledgerNew, routed>>

\* how the download of the registry can end: the file as served, or an error
BankingReads == {Loaded(b) : b \in BankingFiles} \cup {LoadFailed}

\* the operator clicks a button when no pass is still under way
OperatorWaits == awaiting = <<>>

\* the two downloads settle and the process handler goes on
LoadsSettle ==
  /\ awaiting # <<>> /\ NoHandlerRunning
  /\ \E k \in 1..Len(awaiting), b \in BankingReads :
       \E f \in (IF build = "v2" \/ ~b.ok THEN {<<>>} ELSE SalesFiles) :
         ProcessResume(k, b, Loaded(ledgerFile.rows), f)

Next ==
  \/ /\ OperatorWaits
     /\ \E hasFile \in BOOLEAN : SummaryClick(hasFile)
  \/ /\ spc = "await"
     /\ \E readOk \in BOOLEAN :
          \E sheet \in (IF readOk THEN RawSheets ELSE {<<>>}) : SummaryResume(readOk, sheet)
  \/ /\ OperatorWaits
     /\ \E t \in ThresholdChoices, hasFile \in BOOLEAN : ProcessClick(t, hasFile)
  \/ LoadsSettle
  \/ ProcessRow
  \/ FinishPass

Spec == Init /\ [][Next]_vars

\* the row loop and what follows it run without a break: in the loop the
\* handler takes its next step, ProcessRow while rows are left and FinishPass
\* after the last one
RowLoopRuns ==
  /\ pc = "rows"
  /\ i' \in {i, i + 1} /\ pc' \in {"rows", "done"}
  /\ <<pc, i>>' # <<pc, i>>

\* the browser settles every download and runs a handler that was resumed to
\* its end or to its next await; nobody has to click anything
FairSpec == Spec /\ WF_vars(LoadsSettle) /\ WF_<<pc, i>>(RowLoopRuns)

\* ------------------------------------------------------------------------
\* Properties of the process pass
\* ------------------------------------------------------------------------
\* how many buckets one iteration of the row loop appended to
bucketHits(rt) == Len(rt.bank) + Len(rt.momo) + Len(rt.exc) + Len(rt.inv)

\* row k (1-based) of the pass went through the row loop and passed validation
validRow(k) == k \in 1..Len(routed) /\ rowReasons(build, sales[k]) = <<>>

\* C1: when a pass over N non-empty rows ends,
\* |bankBatch| + |momoBatch| + |exceptions| + |invalidRows| = N and every row
\* was appended to exactly one of the four buckets.
ExhaustivePartition ==
  pc = "done" =>
    /\ Len(bankBatch) + Len(momoBatch) + Len(exceptions) + Len(invalidRows) = nonEmpty
    /\ \A k \in 1..Len(routed) : bucketHits(routed[k]) = 1

\* a finished pass of the first build over one row that is in no bucket
RowInNoBucket ==
  /\ pc = "done" /\ build = "v1" /\ nonEmpty = 1
  /\ bucketHits(routed[1]) = 0
  /\ cleanCol(sales[1], "MONTH") = <<>>

\* C2: a valid row is BANK when its amount is at least the threshold and MOMO
\* otherwise; every valid row ends in a batch or in the exceptions under
\* that mode.
routedAs(rt, mode) ==
  /\ bucketHits(rt) = 1 /\ rt.inv = <<>>
  /\ IF mode = BANK THEN rt.momo = <<>> ELSE rt.bank = <<>>
  /\ rt.exc # <<>> => rt.exc[1]["MODE"] = mode
  /\ rt.led # <<>> => rt.led[1]["MODE"] = mode

ThresholdClassification ==
  \A k \in 1..Len(routed) :
    validRow(k) =>
      IF rowAmount(build, sales[k]) >= threshold
      THEN routedAs(routed[k], BANK)
      ELSE routedAs(routed[k], MOMO)

\* one row exactly at the threshold paid by bank, one row one unit below it
\* paid by MoMo
ThresholdBoundaryReached ==
  \E j, k \in 1..Len(routed) :
    /\ validRow(j) /\ rowAmount(build, sales[j]) = threshold /\ routed[j].bank # <<>>
    /\ validRow(k) /\ rowAmount(build, sales[k]) = threshold - Scale
    /\ routed[k].momo # <<>>

\* C3: in the builds that log invalid rows, a row goes to the Invalid bucket
\* exactly when its name is missing, its cost is not a number, its month is
\* missing or its year is missing; a row with an empty YEAR cell is Invalid.
yearMissing(r) ==
  cleanCol(r, "YEAR") = <<>> \/ ~isFinite(Number(cleanCol(r, "YEAR")))

shouldBeInvalid(r) ==
  \/ rowNameKey(r) = <<>>
  \/ ~isFinite(parseAmountCol(r, "SUM of COST"))
  \/ cleanCol(r, "MONTH") = <<>>
  \/ yearMissing(r)

InvalidIffRuleViolated ==
  build # "v1" =>
    \A k \in 1..Len(routed) :
      IF shouldBeInvalid(sales[k])
      THEN Len(routed[k].inv) = 1 /\ bucketHits(routed[k]) = 1 /\ routed[k].led = <<>>
      ELSE routed[k].inv = <<>>

\* a row with an empty YEAR cell that reached the bank batch and the ledger
EmptyYearPaid ==
  \E k \in 1..Len(routed) :
    /\ build = "csv" /\ cleanCol(sales[k], "YEAR") = <<>>
    /\ routed[k].bank # <<>> /\ routed[k].led # <<>>
    /\ routed[k].led[1]["YEAR"] = <<"0">>

\* C4 (as stated): a valid row whose supplier is not in the registry goes to
\* the exceptions only, with ISSUE "supplier not found".
notFoundRow(k) == validRow(k) /\ ~hasSupplier(banking, rowNameKey(sales[k]))

onlyException(rt) ==
  Len(rt.exc) = 1 /\ rt.bank = <<>> /\ rt.momo = <<>> /\ rt.inv = <<>> /\ rt.led = <<>>

NotFoundIssueAsStated ==
  \A k \in 1..Len(routed) :
    notFoundRow(k) =>
      /\ onlyException(routed[k])
      /\ routed[k].exc[1]["ISSUE"] = Issue(<<"supplier not found">>, "")

\* C4 (amended): a valid row whose supplier is not in the registry goes to
\* the exceptions only, in no batch and not in the new ledger entries, with
\* ISSUE "Supplier not found in banking-details.csv".
NotFoundIsException ==
  \A k \in 1..Len(routed) :
    notFoundRow(k) =>
      /\ onlyException(routed[k])
      /\ routed[k].exc[1]["ISSUE"] =
           Issue(<<"Supplier not found in banking-details.csv">>, "")

\* a valid row of an unknown supplier went through the row loop
NotFoundRowReached ==
  \E k \in 1..Len(routed) : notFoundRow(k) /\ Len(exceptions) >= 1

\* the registry fields an ISSUE message names
namedFields(msg) ==
  CASE msg = "Missing Bank Account" -> {"ACCOUNT"}
    [] msg = "Missing Branch Code" -> {"BRANCH"}
    [] msg = "Missing ACCOUNT or BRANCH" -> {"ACCOUNT", "BRANCH"}
    [] msg = "Missing MOMO Provider" -> {"MOMO"}
    [] msg = "Missing MOMO Number" -> {"MOMO NUMBER"}
    [] msg = "Missing MOMO Names" -> {"MOMO NAMES"}
    [] msg = "Missing MOMO or MOMO NUMBER" -> {"MOMO", "MOMO NUMBER"}
    [] OTHER -> {}

issueFields(issue) == UNION {namedFields(issue.parts[n]) : n \in 1..Len(issue.parts)}

\* the fields of cols that are empty, after trimming, in a registry row
emptyFields(supplier, cols) == {c \in cols : cleanCol(supplier, c) = <<>>}

foundRow(k) == validRow(k) /\ hasSupplier(banking, rowNameKey(sales[k]))
supplierOfRow(k) == supplierOf(banking, rowNameKey(sales[k]))
bankRow(k) == foundRow(k) /\ rowAmount(build, sales[k]) >= threshold
momoRow(k) == foundRow(k) /\ rowAmount(build, sales[k]) < threshold

\* C5: a found BANK row is in the bank batch exactly when ACCOUNT and BRANCH
\* are both non-empty; otherwise it is an exception whose ISSUE names exactly
\* the missing fields.
BankIssueNamesMissing ==
  \A k \in 1..Len(routed) :
    bankRow(k) =>
      IF emptyFields(supplierOfRow(k), {"ACCOUNT", "BRANCH"}) = {}
      THEN Len(routed[k].bank) = 1 /\ routed[k].exc = <<>>
      ELSE /\ routed[k].bank = <<>> /\ Len(routed[k].exc) = 1
           /\ issueFields(routed[k].exc[1]["ISSUE"])
                = emptyFields(supplierOfRow(k), {"ACCOUNT", "BRANCH"})

\* a supplier lacking only the branch, reported as lacking account or branch
BankIssueUnspecific ==
  \E k \in 1..Len(routed) :
    /\ build \in {"v1", "csv"} /\ bankRow(k)
    /\ emptyFields(supplierOfRow(k), {"ACCOUNT", "BRANCH"}) = {"BRANCH"}
    /\ Len(routed[k].exc) = 1
    /\ routed[k].exc[1]["ISSUE"] = Issue(<<"Missing ACCOUNT or BRANCH">>, "")

\* C6: a found MOMO row is in the MoMo batch exactly when provider, number
\* and holder name are all non-empty; otherwise it is an exception whose
\* ISSUE names the missing fields; no MoMo batch entry has an empty provider,
\* number or holder name.
MomoFields == {"MOMO", "MOMO NUMBER", "MOMO NAMES"}

MomoEntriesComplete ==
  /\ \A k \in 1..Len(routed) :
       momoRow(k) =>
         IF emptyFields(supplierOfRow(k), MomoFields) = {}
         THEN Len(routed[k].momo) = 1 /\ routed[k].exc = <<>>
         ELSE /\ routed[k].momo = <<>> /\ Len(routed[k].exc) = 1
              /\ emptyFields(supplierOfRow(k), MomoFields)
                   \subseteq issueFields(routed[k].exc[1]["ISSUE"])
  /\ \A n \in 1..Len(momoBatch) :
       /\ momoBatch[n]["MOMO PROVIDER"] # <<>>
       /\ momoBatch[n]["MOMO NUMBER"] # <<>>
       /\ momoBatch[n]["MOMO NAMES"] # <<>>

\* a MoMo batch entry without a holder name
MomoEntryWithoutNames ==
  \E n \in 1..Len(momoBatch) :
    /\ build \in {"v1", "csv"}
    /\ momoBatch[n]["MOMO NAMES"] = <<>>
    /\ momoBatch[n]["MOMO NUMBER"] # <<>>

\* C7: after every row, |ledgerNew| = |bankBatch| + |momoBatch|; each batch
\* entry comes with exactly one ledger entry of the same company, amount and
\* reference and the matching MODE; exceptions and invalid rows add none.
mirrors(entry, led, mode) ==
  /\ led["COMPANY NAME"] = entry["NAME"]
  /\ led["AMOUNT"] = entry["AMOUNT"]
  /\ led["REFERENCE"] = entry["COMMENT"]
  /\ led["MODE"] = mode

LedgerMirrorsBatches ==
  /\ Len(ledgerNew) = Len(bankBatch) + Len(momoBatch)
  /\ \A k \in 1..Len(routed) :
       /\ Len(routed[k].led) = Len(routed[k].bank) + Len(routed[k].momo)
       /\ Len(routed[k].led) <= 1
       /\ routed[k].bank # <<>> => mirrors(routed[k].bank[1], routed[k].led[1], BANK)
       /\ routed[k].momo # <<>> => mirrors(routed[k].momo[1], routed[k].led[1], MOMO)

\* inside the row loop, after a bank row and a MoMo row
BothBatchesMirrored ==
  /\ pc = "rows" /\ i = 2
  /\ Len(bankBatch) = 1 /\ Len(momoBatch) = 1 /\ Len(ledgerNew) = 2

\* the year a ledger entry sorts under: a missing year counts as 0
ledgerYear(e) == LET y == Number(e["YEAR"]) IN IF isFinite(y) THEN y ELSE 0

\* C8 (as stated): in the merged ledger, years never decrease and, within a
\* year, the calendar-month index (monthIndex) never decreases.
LedgerOrderedByMonthIndex ==
  pc = "done" =>
    \A a, b \in 1..Len(ledgerUpdated) :
      a < b =>
        /\ ledgerYear(ledgerUpdated[a]) <= ledgerYear(ledgerUpdated[b])
        /\ ledgerYear(ledgerUpdated[a]) = ledgerYear(ledgerUpdated[b])
             => monthIndex(ledgerUpdated[a]["MONTH"])
                  <= monthIndex(ledgerUpdated[b]["MONTH"])

\* the calendar position of an entry's month; an unrecognised month is last
monthRank(e) ==
  IF monthIndex(e["MONTH"]) = 0 - 1 THEN Len(MONTHS) ELSE monthIndex(e["MONTH"])

\* C8 (amended): in the merged ledger, years never decrease and, within a
\* year, the calendar months never go backwards, entries whose month is not
\* a calendar month name coming last within their year.
LedgerOrdered ==
  pc = "done" =>
    \A a, b \in 1..Len(ledgerUpdated) :
      a < b =>
        /\ ledgerYear(ledgerUpdated[a]) <= ledgerYear(ledgerUpdated[b])
        /\ ledgerYear(ledgerUpdated[a]) = ledgerYear(ledgerUpdated[b])
             => monthRank(ledgerUpdated[a]) <= monthRank(ledgerUpdated[b])

\* a merge that put a new entry between existing ones, with an entry of an
\* unrecognised month behind a calendar month of the same year
MergedWithOddMonth ==
  /\ pc = "done" /\ ledgerNew # <<>> /\ ledgerExisting # <<>>
  /\ \E a, b \in 1..Len(ledgerUpdated) :
       /\ a < b
       /\ ledgerUpdated[a] = ledgerNew[1]
       /\ ledgerYear(ledgerUpdated[a]) = ledgerYear(ledgerUpdated[b])
       /\ monthIndex(ledgerUpdated[b]["MONTH"]) = 0 - 1
  /\ ledgerUpdated[Len(ledgerUpdated)] # ledgerNew[1]

\* the amounts of the rows of the pass that were not routed to Invalid
RECURSIVE validInputTotal(_)
validInputTotal(n) ==
  IF n = 0 THEN 0
  ELSE validInputTotal(n - 1)
       + (IF routed[n].inv = <<>> THEN rowAmount(build, sales[n]) ELSE 0)

RawVerificationPasses ==
  rawVerify.visible =>
    /\ Abs(rawVerify.rawTotal - rawVerify.summaryTotal) < Cent
    /\ rawVerify.verifyOk

\* C10 (amended): rawTotal and summaryTotal differ by at most half a cent per
\* summary row; the raw verification passes exactly when they differ by less than 0.01,
\* which a summary of one supplier always does.
RawVerificationBounded ==
  rawVerify.visible =>
    /\ Abs(rawVerify.rawTotal - rawVerify.summaryTotal) * 2 <= Len(summaryRows) * Cent
    /\ rawVerify.verifyOk <=> Abs(rawVerify.rawTotal - rawVerify.summaryTotal) < Cent
    /\ Len(summaryRows) = 1 => rawVerify.verifyOk

\* a summary whose rounding moved the total and still passed the raw verification
RoundingAbsorbed ==
  /\ rawVerify.visible /\ rawVerify.verifyOk
  /\ rawVerify.rawTotal # rawVerify.summaryTotal

\* the first row of the sales input lacks a required column (an input
\* without rows counts as lacking all of them)
lacksColumn(c) == sales = <<>> \/ c \notin DOMAIN sales[1]

colsOf(seq) == {seq[k] : k \in 1..Len(seq)}

\* C12: a pass over a sales input that lacks a required column never enters
\* the row loop; it stops with one message naming exactly the missing
\* columns, all buckets empty, no download rendered and no verification shown.
MissingColumnHalts ==
  /\ pc \in {"rows", "done"} => \A c \in colsOf(RequiredCols) : ~lacksColumn(c)
  /\ (pc = "idle" /\ status.text = TemplateMismatch) =>
       /\ status.cols # <<>>
       /\ Len(status.cols) = Cardinality(colsOf(status.cols))
       /\ \A c \in colsOf(RequiredCols) : c \in colsOf(status.cols) <=> lacksColumn(c)
       /\ bankBatch = <<>> /\ momoBatch = <<>> /\ exceptions = <<>>
       /\ invalidRows = <<>> /\ ledgerNew = <<>> /\ routed = <<>>
       /\ ledgerUpdated = <<>> /\ files = <<>> /\ ~verify.visible

\* a sales CSV without the YEAR column, reported as such
MissingYearReported ==
  /\ pc = "idle" /\ status = [text |-> TemplateMismatch, cols |-> <<"YEAR">>]
  /\ Len(sales) = 1 /\ build = "csv"

\* ------------------------------------------------------------------------
\* The supplier map: supplierMap.set(normName(name), r), supplierMap.get(nameKey)
\* ------------------------------------------------------------------------
\* the characters a modelled company name is spelled with
NameChars == {"a", "B", " ", "\t"}
WhiteChars == {c \in NameChars : IsSpace(c)}

NameTexts == SeqsUpTo(NameChars, MaxNameLen)

\* the letter in the other case
flipCase(c) ==
  IF c \in DOMAIN UpperOf THEN UpperOf[c]
  ELSE IF \E l \in DOMAIN UpperOf : UpperOf[l] = c
       THEN CHOOSE l \in DOMAIN UpperOf : UpperOf[l] = c
       ELSE c

insertAt(s, k, c) == SubSeq(s, 1, k - 1) \o <<c>> \o SubSeq(s, k, Len(s))
removeAt(s, k) == SubSeq(s, 1, k - 1) \o SubSeq(s, k + 1, Len(s))

\* s has a whitespace character at position k
spaceAt(s, k) == k \in 1..Len(s) /\ IsSpace(s[k])

\* position k of s is at an end of s or next to a whitespace character of s
besideSpace(s, k) ==
  k <= 1 \/ k >= Len(s) \/ spaceAt(s, k - 1) \/ spaceAt(s, k + 1)

\* a whitespace character put in front of position k lengthens a run of
\* whitespace or pads an end
widensAt(s, k) ==
  k = 1 \/ k = Len(s) + 1 \/ spaceAt(s, k - 1) \/ spaceAt(s, k)

respelled(text) == [nameProbe EXCEPT !.text = text, !.nameKey = <<>>, !.at = "indexed"]

NameInit ==
  /\ build = "v2"
  /\ PageIdle
  /\ \E n \in NameTexts :
       nameProbe = [NoProbe EXCEPT !.stored = n, !.text = n, !.at = "new"]
  /\ registry = RegistryIdle("admin")
  /\ ledgerFile = ServedLedger(<<>>)

\* banking.forEach((r) => supplierMap.set(normName(r["COMPANY NAME"]), r))
IndexName ==
  /\ nameProbe.at = "new"
  /\ nameProbe' = [nameProbe EXCEPT !.indexKey = normName(nameProbe.stored),
                                    !.at = "indexed"]
  /\ UNCHANGED <<build, registry, ledgerFile, summaryVars, passVars>>

\* the sales report spells the name with one letter in the other case
SwapCase(k) ==
  /\ nameProbe.at \in {"indexed", "looked"}
  /\ k \in 1..Len(nameProbe.text)
  /\ flipCase(nameProbe.text[k]) # nameProbe.text[k]
  /\ nameProbe' = respelled([nameProbe.text EXCEPT ![k] = flipCase(@)])
  /\ UNCHANGED <<build, registry, ledgerFile, summaryVars, passVars>>

\* ... with one more whitespace character at an end or in a run of whitespace
AddSpace(k, c) ==
  /\ nameProbe.at \in {"indexed", "looked"}
  /\ Len(nameProbe.text) < MaxNameLen
  /\ k \in 1..(Len(nameProbe.text) + 1)
  /\ widensAt(nameProbe.text, k)
  /\ nameProbe' = respelled(insertAt(nameProbe.text, k, c))
  /\ UNCHANGED <<build, registry, ledgerFile, summaryVars, passVars>>

\* ... with one whitespace character less at an end or in a run of whitespace
DropSpace(k) ==
  /\ nameProbe.at \in {"indexed", "looked"}
  /\ k \in 1..Len(nameProbe.text)
  /\ spaceAt(nameProbe.text, k)
  /\ besideSpace(nameProbe.text, k)
  /\ nameProbe' = respelled(removeAt(nameProbe.text, k))
  /\ UNCHANGED <<build, registry, ledgerFile, summaryVars, passVars>>

\* ... with another whitespace character in the place of one
SwapSpace(k, c) ==
  /\ nameProbe.at \in {"indexed", "looked"}
  /\ k \in 1..Len(nameProbe.text)
  /\ spaceAt(nameProbe.text, k) /\ c # nameProbe.text[k]
  /\ nameProbe' = respelled([nameProbe.text EXCEPT ![k] = c])
  /\ UNCHANGED <<build, registry, ledgerFile, summaryVars, passVars>>

\* const nameKey = normName(rawName); supplierMap.get(nameKey)
LookupName ==
  /\ nameProbe.at = "indexed"
  /\ nameProbe' = [nameProbe EXCEPT !.nameKey = normName(nameProbe.text),
                                    !.at = "looked"]
  /\ UNCHANGED <<build, registry, ledgerFile, summaryVars, passVars>>

NameNext ==
  \/ IndexName
  \/ \E k \in 1..MaxNameLen : SwapCase(k)
  \/ \E k \in 1..MaxNameLen, c \in WhiteChars : AddSpace(k, c)
  \/ \E k \in 1..MaxNameLen : DropSpace(k)
  \/ \E k \in 1..MaxNameLen, c \in WhiteChars : SwapSpace(k, c)
  \/ LookupName

NameSpec == NameInit /\ [][NameNext]_vars

\* C11: a name respelled only in letter case, in whitespace at its ends or in
\* the length and kind of its runs of whitespace is looked up under the key
\* the registry stored it under, and normName of a key is that key.
NameLookupInsensitive ==
  /\ nameProbe.at = "looked" =>
       /\ nameProbe.nameKey = nameProbe.indexKey
       /\ normName(nameProbe.nameKey) = nameProbe.nameKey
  /\ nameProbe.at \in {"indexed", "looked"} =>
       normName(nameProbe.indexKey) = nameProbe.indexKey

\* a lookup under a spelling that differs from the stored one in case and in
\* whitespace, with a run of whitespace inside the name
RespelledNameFound ==
  /\ nameProbe.at = "looked"
  /\ nameProbe.stored = <<"a", " ", "B">>
  /\ nameProbe.text = <<"A", "\t", " ", "b">>
  /\ nameProbe.nameKey = <<"A", " ", "B">>

\* ------------------------------------------------------------------------
\* The registry update: updateBankingBtn of suppliers.js and of admin.js
\* ------------------------------------------------------------------------
Scripts == {"suppliers", "admin"}

RegistryCols ==
  <<"COMPANY NAME", "BANK", "ACCOUNT", "BRANCH", "MOMO", "MOMO NUMBER", "MOMO NAMES">>
UpperCols == {"COMPANY NAME", "BANK", "MOMO NAMES"}
BankFields == {"BANK", "ACCOUNT", "BRANCH"}

\* a row without columns: {}
EmptyRow == [c \in {} |-> <<>>]

\* upper(s) of suppliers.js
upper(s) == toUpperCase(clean(s))

\* what a cleaned cell becomes in a registry row: suppliers.js upper-cases
\* COMPANY NAME, BANK and MOMO NAMES, admin.js does not
storedCell(script, c, cell) ==
  IF script = "suppliers" /\ c \in UpperCols THEN toUpperCase(cell) ELSE cell

\* r["COMPANY NAME"] ?? r["COMPANY"] ?? r["NAME"], r["BANK"] ?? r["BANK NAME"], ...
SourceCols(c) ==
  CASE c = "COMPANY NAME" -> <<"COMPANY NAME", "COMPANY", "NAME">>
    [] c = "BANK" -> <<"BANK", "BANK NAME">>
    [] c = "ACCOUNT" -> <<"ACCOUNT", "BANK ACCOUNT/MOBILE">>
    [] OTHER -> <<c>>

\* normalizeBankingRows(rows)
normalizeBankingRows(script, rows) ==
  LET named == SelectSeq(rows, LAMBDA r : cleanFirst(r, SourceCols("COMPANY NAME")) # <<>>)
  IN [k \in 1..Len(named) |->
        [c \in {RegistryCols[n] : n \in 1..Len(RegistryCols)} |->
           storedCell(script, c, cleanFirst(named[k], SourceCols(c)))]]

\* a Map as the sequence of its entries [key, row] in insertion order
mapPos(m, key) ==
  IF \E k \in 1..Len(m) : m[k].key = key
  THEN CHOOSE k \in 1..Len(m) : m[k].key = key
  ELSE 0

mapGet(m, key) == IF mapPos(m, key) = 0 THEN EmptyRow ELSE m[mapPos(m, key)].row

\* map.set(key, row)
mapSet(m, key, row) ==
  IF mapPos(m, key) = 0 THEN Append(m, [key |-> key, row |-> row])
  ELSE [m EXCEPT ![mapPos(m, key)].row = row]

\* an index that keeps every row of the file as an entry of its own
RECURSIVE indexBankingAppends(_, _)
indexBankingAppends(rows, n) ==
  IF n = 0 THEN <<>>
  ELSE Append(indexBankingAppends(rows, n - 1),
              [key |-> normName(rows[n]["COMPANY NAME"]), row |-> rows[n]])

\* banking.forEach((r) => bankMap.set(normName(r["COMPANY NAME"]), r))
RECURSIVE indexBanking(_, _)
indexBanking(rows, n) ==
  IF n = 0 THEN <<>>
  ELSE mapSet(indexBanking(rows, n - 1), normName(rows[n]["COMPANY NAME"]), rows[n])

\* key.includes(w)
Includes(s, w) == \E p \in 1..(Len(s) - Len(w) + 1) : SubSeq(s, p, p + Len(w) - 1) = w

\* the keys of findHeaderRow's map, by column: normHeader of every header cell
headerKeys(row) == [k \in 1..Len(row) |-> normHeader(row[k])]

\* map.get(key) on those keys: the last column under that key (0: none)
keyCol(keys, key) ==
  LET hits == {k \in 1..Len(keys) : keys[k] # <<>> /\ keys[k] = key}
  IN IF hits = {} THEN 0 ELSE SetMax(hits)

\* pickCompanyNameCell: the COMPANY NAME column, else the column of the first
\* header label that includes COMPANY and NAME (0: none)
companyCol(keys) ==
  IF keyCol(keys, HdrCompanyName) > 0 THEN keyCol(keys, HdrCompanyName)
  ELSE LET hits == {k \in 1..Len(keys) :
                      /\ Includes(keys[k], <<"C", "O", "M", "P", "A", "N", "Y">>)
                      /\ Includes(keys[k], <<"N", "A", "M", "E">>)}
       IN IF hits = {} THEN 0 ELSE keyCol(keys, keys[SetMin(hits)])

HdrBankName == <<"B", "A", "N", "K", " ", "N", "A", "M", "E">>
HdrBankAccount == <<"B", "A", "N", "K", " ", "A", "C", "C", "O", "U", "N", "T", "/", "M", "O", "B", "I", "L", "E">>

\* clean(row[map.get(label)] || "")
cellUnder(row, keys, label) == clean(cellAt(row, keyCol(keys, label)))

\* if (!existing["BANK"] && bank) existing["BANK"] = bank; the same for ACCOUNT
fillBank(existing, bank, account) ==
  [existing EXCEPT !["BANK"] = IF @ = <<>> THEN bank ELSE @,
                   !["ACCOUNT"] = IF @ = <<>> THEN account ELSE @]

\* out.set(key, { "COMPANY NAME", BANK, ACCOUNT }) for a new key
rawBankAdd(out, key, company, bank, account) ==
  IF mapPos(out, key) = 0
  THEN Append(out, [key |-> key,
                    row |-> ("COMPANY NAME" :> company) @@ ("BANK" :> bank)
                            @@ ("ACCOUNT" :> account)])
  ELSE mapSet(out, key, fillBank(mapGet(out, key), bank, account))

rawBankRow(out, company, bank, account) ==
  IF company = <<>> \/ (bank = <<>> /\ account = <<>>) THEN out
  ELSE rawBankAdd(out, normName(company), company, bank, account)

\* the body of dataRows.forEach in parseRawBankingDetails
rawBankStep(out, row, keys) ==
  IF isAllEmptyArrayRow(row) THEN out
  ELSE rawBankRow(out, clean(cellAt(row, companyCol(keys))),
                  cellUnder(row, keys, HdrBankName),
                  cellUnder(row, keys, HdrBankAccount))

RECURSIVE rawBankFold(_, _, _, _)
rawBankFold(rows, n, hdr, keys) ==
  IF n <= hdr THEN <<>>
  ELSE rawBankStep(rawBankFold(rows, n - 1, hdr, keys), rows[n], keys)

\* parseRawBankingDetails(rows)
rawBankFrom(rows, hdr) ==
  IF hdr = 0 THEN [error |-> TRUE, map |-> <<>>]
  ELSE [error |-> FALSE, map |-> rawBankFold(rows, Len(rows), hdr, headerKeys(rows[hdr]))]

parseRawBankingDetails(rows) == rawBankFrom(rows, findHeaderRow(rows))

MomoProviderLabels ==
  <<<<"5", ".", " ", "S", "E", "L", "E", "C", "T", " ", "Y", "O", "U", "R", " ", "M", "O", "B", "I", "L", "E", " ", "M", "O", "N", "E", "Y", " ", "P", "L", "A", "T", "F", "O", "R", "M">>, <<"S", "E", "L", "E", "C", "T", " ", "Y", "O", "U", "R", " ", "M", "O", "B", "I", "L", "E", " ", "M", "O", "N", "E", "Y", " ", "P", "L", "A", "T", "F", "O", "R", "M">>,
    <<"M", "O", "B", "I", "L", "E", " ", "M", "O", "N", "E", "Y", " ", "P", "L", "A", "T", "F", "O", "R", "M">>>>
MomoNumberLabels ==
  <<<<"3", ".", " ", "M", "P", "E", "S", "A", " ", "/", " ", "E", "C", "O", "C", "A", "S", "H", " ", "N", "U", "M", "B", "E", "R">>, <<"M", "P", "E", "S", "A", " ", "/", " ", "E", "C", "O", "C", "A", "S", "H", " ", "N", "U", "M", "B", "E", "R">>, <<"M", "O", "M", "O", " ", "N", "U", "M", "B", "E", "R">>>>
MomoNamesLabels ==
  <<<<"2", ".", " ", "C", "O", "N", "T", "A", "C", "T", " ", "P", "E", "R", "S", "O", "N", " ", "F", "U", "L", "L", " ", "N", "A", "M", "E">>, <<"C", "O", "N", "T", "A", "C", "T", " ", "P", "E", "R", "S", "O", "N", " ", "F", "U", "L", "L", " ", "N", "A", "M", "E">>, <<"C", "O", "N", "T", "A", "C", "T", " ", "N", "A", "M", "E">>>>

\* clean(row[a] || "") || clean(row[b] || "") || clean(row[c] || "")
firstFilled(row, keys, labels) ==
  LET hits == {k \in 1..Len(labels) : cellUnder(row, keys, labels[k]) # <<>>}
  IN IF hits = {} THEN <<>> ELSE cellUnder(row, keys, labels[SetMin(hits)])

\* out.set(key, { "COMPANY NAME", MOMO, "MOMO NUMBER", "MOMO NAMES" })
momoSheetRow(out, company, provider, number, names) ==
  IF company = <<>> \/ (provider = <<>> /\ number = <<>> /\ names = <<>>) THEN out
  ELSE mapSet(out, normName(company),
              ("COMPANY NAME" :> company) @@ ("MOMO" :> provider)
              @@ ("MOMO NUMBER" :> number) @@ ("MOMO NAMES" :> names))

\* the body of the row loop of parseMomoUpdateSheet
momoStep(out, row, keys) ==
  IF isAllEmptyArrayRow(row) THEN out
  ELSE momoSheetRow(out, clean(cellAt(row, companyCol(keys))),
               firstFilled(row, keys, MomoProviderLabels),
               firstFilled(row, keys, MomoNumberLabels),
               firstFilled(row, keys, MomoNamesLabels))

RECURSIVE momoFold(_, _, _, _)
momoFold(rows, n, hdr, keys) ==
  IF n <= hdr THEN <<>>
  ELSE momoStep(momoFold(rows, n - 1, hdr, keys), rows[n], keys)

\* headerInfo || { rowIndex: 0, map: fallbackMap }
momoFrom(rows, hdr) ==
  IF hdr = 0 THEN momoFold(rows, Len(rows), 1, headerKeys(rows[1]))
  ELSE momoFold(rows, Len(rows), hdr, headerKeys(rows[hdr]))

\* parseMomoUpdateSheet(rows): without a header row, row 0 is the header
parseMomoUpdateSheet(rows) ==
  IF rows = <<>> THEN <<>>
  ELSE momoFrom(rows, findHeaderRow(rows))

\* the uploaded row a registry column is filled from
sourceFor(c, fromSales, fromMomo) == IF c \in BankFields THEN fromSales ELSE fromMomo

updateMissingOverwrites(existing, fromSales, fromMomo) ==
  [c \in DOMAIN existing |->
     IF /\ c # "COMPANY NAME"
        /\ cleanCol(sourceFor(c, fromSales, fromMomo), c) # <<>>
     THEN cleanCol(sourceFor(c, fromSales, fromMomo), c)
     ELSE existing[c]]

\* updateMissing(existing, sales, [BANK, ACCOUNT, BRANCH]) and
\* updateMissing(existing, momo, [MOMO, MOMO NUMBER, MOMO NAMES])
updateMissing(existing, fromSales, fromMomo) ==
  [c \in DOMAIN existing |->
     IF /\ c # "COMPANY NAME"
        /\ clean(existing[c]) = <<>>
        /\ cleanCol(sourceFor(c, fromSales, fromMomo), c) # <<>>
     THEN cleanCol(sourceFor(c, fromSales, fromMomo), c)
     ELSE existing[c]]

\* const name = sales["COMPANY NAME"] || momo["COMPANY NAME"]
newName(fromSales, fromMomo) ==
  IF Has(fromSales, "COMPANY NAME") /\ fromSales["COMPANY NAME"] # <<>> THEN fromSales["COMPANY NAME"]
  ELSE IF Has(fromMomo, "COMPANY NAME") THEN fromMomo["COMPANY NAME"]
  ELSE <<>>

\* the row bankMap.set(key, {...}) adds for a new supplier
addedRow(script, name, fromSales, fromMomo) ==
  [c \in {RegistryCols[n] : n \in 1..Len(RegistryCols)} |->
     IF c = "COMPANY NAME" THEN storedCell(script, c, IF script = "suppliers" THEN clean(name) ELSE name)
     ELSE IF c = "BRANCH" THEN <<>>
     ELSE storedCell(script, c, cleanCol(sourceFor(c, fromSales, fromMomo), c))]

\* an existing supplier: fill, and count it when a field changed
mergeExisting(acc, key, row) ==
  [acc EXCEPT !.map = mapSet(@, key, row),
              !.updatedCount = IF row # mapGet(acc.map, key) THEN @ + 1 ELSE @]

mergeNewUncounted(script, acc, key, name, fromSales, fromMomo) ==
  IF name = <<>> THEN acc
  ELSE [acc EXCEPT !.map = Append(@, [key |-> key, row |-> addedRow(script, name, fromSales, fromMomo)])]

\* a supplier that is not in the registry: add and count it
mergeNew(script, acc, key, name, fromSales, fromMomo) ==
  IF name = <<>> THEN acc
  ELSE [acc EXCEPT !.map = Append(@, [key |-> key, row |-> addedRow(script, name, fromSales, fromMomo)]),
                   !.addedCount = @ + 1]

\* the body of for (const key of allKeys)
mergeKey(script, acc, key, fromSales, fromMomo) ==
  IF mapPos(acc.map, key) # 0
  THEN mergeExisting(acc, key, updateMissing(mapGet(acc.map, key), fromSales, fromMomo))
  ELSE mergeNew(script, acc, key, newName(fromSales, fromMomo), fromSales, fromMomo)

\* new Set([...bankMap.keys(), ...salesMap.keys(), ...momoMap.keys()])
allKeys(bankMap, salesMap, momoMap) ==
  [k \in 1..Len(bankMap) |-> bankMap[k].key]
  \o [k \in 1..Len(salesMap) |-> salesMap[k].key]
  \o [k \in 1..Len(momoMap) |-> momoMap[k].key]

\* the loop over allKeys; a key met again changes nothing more
RECURSIVE mergeKeys(_, _, _, _, _, _)
mergeKeys(script, keys, n, bankMap, salesMap, momoMap) ==
  IF n = 0 THEN [map |-> bankMap, updatedCount |-> 0, addedCount |-> 0]
  ELSE IF \E j \in 1..(n - 1) : keys[j] = keys[n]
       THEN mergeKeys(script, keys, n - 1, bankMap, salesMap, momoMap)
       ELSE mergeKey(script, mergeKeys(script, keys, n - 1, bankMap, salesMap, momoMap),
                     keys[n], mapGet(salesMap, keys[n]), mapGet(momoMap, keys[n]))

\* the order localeCompare gives names of spaces, digits and letters: by
\* letter whatever its case, a shorter name before a longer one it starts,
\* and on a tie the lower-case letter first
Collation == <<" ">> \o Digits \o UpperCase

RECURSIVE caseCompare(_, _, _)
caseCompare(a, b, k) ==
  IF k > Len(a) THEN 0
  ELSE IF a[k] = b[k] THEN caseCompare(a, b, k + 1)
  ELSE IF a[k] \in DOMAIN UpperOf THEN 0 - 1 ELSE 1

RECURSIVE localeCompareFrom(_, _, _)
localeCompareFrom(a, b, k) ==
  IF k > Len(a) /\ k > Len(b) THEN caseCompare(a, b, 1)
  ELSE IF k > Len(a) THEN 0 - 1
  ELSE IF k > Len(b) THEN 1
  ELSE IF IndexIn(toUpperChar(a[k]), Collation) = IndexIn(toUpperChar(b[k]), Collation)
       THEN localeCompareFrom(a, b, k + 1)
  ELSE IF IndexIn(toUpperChar(a[k]), Collation) < IndexIn(toUpperChar(b[k]), Collation)
       THEN 0 - 1 ELSE 1

\* clean(a["COMPANY NAME"]).localeCompare(clean(b["COMPANY NAME"]))
registryCompare(a, b) ==
  localeCompareFrom(clean(a["COMPANY NAME"]), clean(b["COMPANY NAME"]), 1)

\* a row put before the first sorted row that compares greater
sortRegistryInsert(sorted, r) ==
  insertBefore(sorted, r, {k \in 1..Len(sorted) : registryCompare(sorted[k], r) > 0})

\* Array.prototype.sort with that comparator (stable)
RECURSIVE sortRegistry(_)
sortRegistry(rows) ==
  IF rows = <<>> THEN <<>>
  ELSE sortRegistryInsert(sortRegistry(SubSeq(rows, 1, Len(rows) - 1)), rows[Len(rows)])

\* updatedRows.forEach(r => { r[c] = upper(r[c]) }) of suppliers.js
upperRow(script, r) ==
  [c \in DOMAIN r |-> IF script = "suppliers" /\ c \in UpperCols THEN upper(r[c]) ELSE r[c]]

\* Array.from(bankMap.values()).sort(...), upper-cased by suppliers.js
updatedRows(script, map) ==
  LET sorted == sortRegistry([k \in 1..Len(map) |-> map[k].row])
  IN [k \in 1..Len(sorted) |-> upperRow(script, sorted[k])]

\* data/banking-details.csv as fetched: absent, or rows in mixed case with
\* blank cells, a repeated supplier, legacy column labels and a nameless row
RegistryFiles == {
  <<>>,
  <<BankingRow(<<"A", "c", "m", "e", " ", "C", "o">>, <<"f", "n", "b">>, <<"1", "1", "1">>, <<"0", "1">>, <<>>, <<>>, <<>>),
    BankingRow(<<"B", "o", "b">>, <<>>, <<" ">>, <<>>, <<"E", "c", "o">>, <<"6", "6", "6">>, <<"b", "o", " ", "b">>)>>,
  <<BankingRow(<<"A", "c", "m", "e", " ", "C", "o">>, <<"X">>, <<"1">>, <<>>, <<>>, <<>>, <<>>),
    BankingRow(<<"a", "c", "m", "e", " ", " ", "c", "o">>, <<>>, <<>>, <<>>, <<>>, <<>>, <<"a", "n", "n">>),
    ("COMPANY" :> <<"C", "a", "t">>) @@ ("BANK NAME" :> <<"n", "b">>) @@ ("BANK ACCOUNT/MOBILE" :> <<"3">>),
    BankingRow(<<>>, <<"Q">>, <<"9">>, <<>>, <<>>, <<>>, <<>>)>>
}

\* raw sales reports: a header row and data rows (company, cost, bank, account)
BankSheetHeader == <<<<"C", "o", "m", "p", "a", "n", "y", " ", "N", "a", "m", "e">>, <<"C", "o", "s", "t">>, <<"B", "a", "n", "k", " ", "N", "a", "m", "e">>, <<"B", "a", "n", "k", " ", "A", "c", "c", "o", "u", "n", "t", "/", "M", "o", "b", "i", "l", "e">>>>
BankSheetRows == {
  <<<<"A", "c", "m", "e", " ", "C", "o">>, <<"1", "0">>, <<"S", "t", "d">>, <<"9", "9", "9">>>>,
  <<<<"b", "o", "b">>, <<"5">>, <<"s", "l", "b">>, <<"2", "2", "2">>>>,
  <<<<"E", "v", "e">>, <<"5">>, <<"n", "b">>, <<>>>>,
  <<<<" ", "e", "v", "e", " ">>, <<"5">>, <<"x">>, <<"3", "3", "3">>>>,
  <<<<"D", "a", "n">>, <<"5">>, <<>>, <<>>>>
}
BankSheets ==
  {<<BankSheetHeader>> \o d : d \in SeqsUpTo(BankSheetRows, MaxSheetRows)}
  \cup {<< <<<<"D", "a", "n">>, <<"5">>>> >>}

\* MoMo update sheets: the form's header row (no COST column) and data rows
MomoSheetHeader ==
  <<<<"1", ".", " ", "C", "o", "m", "p", "a", "n", "y", " ", "N", "a", "m", "e">>, <<"M", "o", "b", "i", "l", "e", " ", "M", "o", "n", "e", "y", " ", "P", "l", "a", "t", "f", "o", "r", "m">>,
    <<"3", ".", " ", "M", "P", "E", "S", "A", " ", "/", " ", "E", "c", "o", "c", "a", "s", "h", " ", "N", "u", "m", "b", "e", "r">>, <<"C", "o", "n", "t", "a", "c", "t", " ", "N", "a", "m", "e">>>>
MomoSheetRows == {
  <<<<"A", "C", "M", "E", " ", "C", "O">>, <<"M", "p", "e", "s", "a">>, <<"5", "5", "5">>, <<"a", "n", "n", " ", "l", "e", "e">>>>,
  <<<<"B", "o", "b">>, <<"M", "p", "e", "s", "a">>, <<"7", "7", "7">>, <<"x">>>>,
  <<<<"E", "v", "e">>, <<>>, <<"8", "8", "8">>, <<>>>>,
  <<<<"F", "a", "y">>, <<>>, <<>>, <<>>>>
}
MomoSheets ==
  {<<MomoSheetHeader>> \o d : d \in SeqsUpTo(MomoSheetRows, MaxSheetRows)} \cup {<<>>}

RegistryInit ==
  /\ build = "v2"
  /\ PageIdle
  /\ nameProbe = NoProbe
  /\ \E script \in Scripts : registry = RegistryIdle(script)
  /\ ledgerFile = ServedLedger(<<>>)

\* click, up to `await Promise.all([parseCsvUrl(BANKING_DETAILS_URL).catch(() => [])])`
UpdateClick ==
  /\ registry.at \in {"idle", "done"}
  /\ registry' = [RegistryIdle(registry.script) EXCEPT
                    !.status = "Loading banking details...", !.at = "loading"]
  /\ UNCHANGED <<build, nameProbe, ledgerFile, summaryVars, passVars>>

\* the merge loop, the sort, the download button and the final status
finishUpdate(reg, merged) ==
  [reg EXCEPT !.rows = updatedRows(reg.script, merged.map),
              !.updatedCount = merged.updatedCount,
              !.addedCount = merged.addedCount,
              !.downloads = 1,
              !.status = "Done.",
              !.at = "done"]

mergeSheets(reg, bankMap) ==
  finishUpdate(reg, mergeKeys(reg.script, allKeys(bankMap, reg.salesMap, reg.momoMap),
                              Len(bankMap) + Len(reg.salesMap) + Len(reg.momoMap),
                              bankMap, reg.salesMap, reg.momoMap))

\* banking.forEach((r) => bankMap.set(...)) and what follows
mergeBanking(reg, bankingRows) == mergeSheets(reg, indexBanking(bankingRows, Len(bankingRows)))

\* const banking = normalizeBankingRows(bankingRows)
mergeUpdate(reg) == mergeBanking(reg, normalizeBankingRows(reg.script, reg.csv))

stopUpdate(reg, text) == [reg EXCEPT !.status = text, !.at = "idle"]

\* banking-details.csv arrived: the file inputs are read
UpdateLoaded(csv, hasSales, hasMomo) ==
  /\ registry.at = "loading"
  /\ registry' =
       IF ~hasSales /\ ~hasMomo
       THEN stopUpdate([registry EXCEPT !.csv = csv], "Please upload at least one XLSX file.")
       ELSE [registry EXCEPT !.csv = csv, !.hasSales = hasSales, !.hasMomo = hasMomo,
                             !.at = IF hasSales THEN "sales" ELSE "momo"]
  /\ UNCHANGED <<build, nameProbe, ledgerFile, summaryVars, passVars>>

\* readXlsxFile(salesFile) settled
salesParsed(reg, sheet, parsed) ==
  IF parsed.error THEN stopUpdate(reg, "Could not find header row in raw sales report.")
  ELSE IF reg.hasMomo
  THEN [reg EXCEPT !.salesSheet = sheet, !.salesMap = parsed.map, !.at = "momo"]
  ELSE mergeUpdate([reg EXCEPT !.salesSheet = sheet, !.salesMap = parsed.map])

UpdateSalesRead(readOk, sheet) ==
  /\ registry.at = "sales"
  /\ registry' =
       IF ~readOk THEN stopUpdate(registry, "Failed to read raw sales XLSX")
       ELSE salesParsed(registry, sheet, parseRawBankingDetails(sheet))
  /\ UNCHANGED <<build, nameProbe, ledgerFile, summaryVars, passVars>>

\* readXlsxFile(momoFile) settled
UpdateMomoRead(readOk, sheet) ==
  /\ registry.at = "momo"
  /\ registry' =
       IF ~readOk THEN stopUpdate(registry, "Failed to read MoMo update XLSX")
       ELSE mergeUpdate([registry EXCEPT !.momoSheet = sheet,
                                         !.momoMap = parseMomoUpdateSheet(sheet)])
  /\ UNCHANGED <<build, nameProbe, ledgerFile, summaryVars, passVars>>

RegistryNext ==
  \/ UpdateClick
  \/ \E csv \in RegistryFiles, hasSales, hasMomo \in BOOLEAN :
       UpdateLoaded(csv, hasSales, hasMomo)
  \/ /\ registry.at = "sales"
     /\ \E readOk \in BOOLEAN, sheet \in BankSheets : UpdateSalesRead(readOk, sheet)
  \/ /\ registry.at = "momo"
     /\ \E readOk \in BOOLEAN, sheet \in MomoSheets : UpdateMomoRead(readOk, sheet)

RegistrySpec == RegistryInit /\ [][RegistryNext]_vars

\* ---- the registry update keeps existing details ----

DetailCols == {"BANK", "ACCOUNT", "BRANCH", "MOMO", "MOMO NUMBER", "MOMO NAMES"}

\* the cell of a row of banking-details.csv as the file has it
existingValue(r, c) == firstCell(r, SourceCols(c), FirstCols(r, SourceCols(c)))
existingNamed(e) == clean(existingValue(registry.csv[e], "COMPANY NAME")) # <<>>
existingKey(e) == normName(existingValue(registry.csv[e], "COMPANY NAME"))
lastOfSupplier(e) ==
  ~\E j \in (e + 1)..Len(registry.csv) : existingNamed(j) /\ existingKey(j) = existingKey(e)

\* the generated rows of one supplier
generatedFor(key) ==
  {k \in 1..Len(registry.rows) : normName(registry.rows[k]["COMPANY NAME"]) = key}

\* what the uploaded sheets hold for a supplier's field
offered(key, c) ==
  cleanCol(sourceFor(c, mapGet(registry.salesMap, key), mapGet(registry.momoMap, key)), c)

sameDetail(c, a, b) == IF c \in UpperCols THEN toUpperCase(a) = toUpperCase(b) ELSE a = b

\* C13 as stated: every non-empty field of every supplier of
\* banking-details.csv has the very same value in the generated registry
ExistingValuesEqual ==
  registry.at = "done" =>
    \A e \in 1..Len(registry.csv) : existingNamed(e) =>
      \A c \in DetailCols : existingValue(registry.csv[e], c) # <<>> =>
        \E g \in generatedFor(existingKey(e)) :
          registry.rows[g][c] = existingValue(registry.csv[e], c)

\* C13: a supplier of banking-details.csv has one generated row, and each
\* field of it is the trimmed value of the supplier's last row in the file when
\* that is not empty, and otherwise the trimmed value the uploaded sheets offer
\* (empty when they offer none); BANK and MOMO NAMES are compared up to case
ExistingDetailsKept ==
  registry.at = "done" =>
    \A e \in 1..Len(registry.csv) : existingNamed(e) /\ lastOfSupplier(e) =>
      /\ Cardinality(generatedFor(existingKey(e))) = 1
      /\ \A k \in generatedFor(existingKey(e)) : \A c \in DetailCols :
           sameDetail(c, registry.rows[k][c],
                      IF clean(existingValue(registry.csv[e], c)) # <<>>
                      THEN clean(existingValue(registry.csv[e], c))
                      ELSE offered(existingKey(e), c))

\* a supplier whose bank is kept although the sales report names another one,
\* and whose empty MoMo fields are filled from the MoMo sheet
KeptAndFilled ==
  /\ registry.at = "done"
  /\ registry.script = "suppliers"
  /\ \E e \in 1..Len(registry.csv) : \E k \in 1..Len(registry.rows) :
       /\ existingValue(registry.csv[e], "BANK") = <<"f", "n", "b">>
       /\ existingValue(registry.csv[e], "MOMO") = <<>>
       /\ offered(existingKey(e), "BANK") = <<"S", "t", "d">>
       /\ registry.rows[k]["COMPANY NAME"] = <<"A", "C", "M", "E", " ", "C", "O">>
       /\ registry.rows[k]["BANK"] = <<"F", "N", "B">>
       /\ registry.rows[k]["ACCOUNT"] = <<"1", "1", "1">>
       /\ registry.rows[k]["MOMO"] = <<"M", "p", "e", "s", "a">>
       /\ registry.updatedCount >= 1

\* ---- the registry update adds the suppliers it does not know ----

\* the data rows of the uploaded sheets: the company is the first cell, a raw
\* sales report has the bank and the account in cells 3 and 4, a MoMo sheet
\* the provider, the number and the contact name in cells 2 to 4
uploadedSales == SubSeq(registry.salesSheet, 2, Len(registry.salesSheet))
uploadedMomo == SubSeq(registry.momoSheet, 2, Len(registry.momoSheet))
detailedSales(r) == clean(r[3]) # <<>> \/ clean(r[4]) # <<>>
detailedMomo(r) == clean(r[2]) # <<>> \/ clean(r[3]) # <<>> \/ clean(r[4]) # <<>>

existingKeys == {existingKey(e) : e \in {x \in 1..Len(registry.csv) : existingNamed(x)}}

uploadedKeys ==
  {normName(uploadedSales[k][1]) : k \in 1..Len(uploadedSales)}
  \cup {normName(uploadedMomo[k][1]) : k \in 1..Len(uploadedMomo)}
detailedKeys ==
  {normName(uploadedSales[k][1]) : k \in {x \in 1..Len(uploadedSales) : detailedSales(uploadedSales[x])}}
  \cup {normName(uploadedMomo[k][1]) : k \in {x \in 1..Len(uploadedMomo) : detailedMomo(uploadedMomo[x])}}

OutputUppercase ==
  registry.at = "done" =>
    \A k \in 1..Len(registry.rows) : \A c \in UpperCols :
      registry.rows[k][c] = toUpperCase(registry.rows[k][c])

\* the handler of admin.js writes an existing bank and a new supplier's
\* name as they were typed
LowercaseWritten ==
  /\ registry.at = "done"
  /\ registry.script = "admin"
  /\ \E k \in 1..Len(registry.rows) : registry.rows[k]["BANK"] = <<"f", "n", "b">>
  /\ \E k \in 1..Len(registry.rows) : registry.rows[k]["COMPANY NAME"] = <<"E", "v", "e">>

\* ------------------------------------------------------------------------
\* The ledger from pass to pass
\* ------------------------------------------------------------------------
MaxReplaces == 1   \* times the operator replaces data/transactions.csv

\* toCsv(ledgerUpdated, [MONTH, ..., REFERENCE]) read back by parseCsvUrl:
\* the seven columns of every row, as text
ledgerCsv(rows) ==
  [k \in 1..Len(rows) |-> [c \in LedgerCols |-> IF Has(rows[k], c) THEN rows[k][c] ELSE <<>>]]

\* the monthly sales CSVs and raw sheets handed to the page in these passes
LedgerSalesRows == {
  SalesRow(<<"A", "c", "m", "e", " ", "C", "o">>, <<"4", "0", "0">>, <<>>, <<"J", "a", "n", "u", "a", "r", "y">>, <<"2", "0", "2", "6">>),
  SalesRow(<<" ", "a", "c", "m", "e", " ", " ", "c", "o", " ">>, <<"3", "9", "9">>, <<>>, <<"J", "a", "n", "u", "a", "r", "y">>, <<"2", "0", "2", "6">>)
}
LedgerSalesFiles == SeqsUpTo(LedgerSalesRows, MaxRows)
LedgerSheets ==
  {<< <<RawTitle>>, RawHeader >> \o d :
     d \in SeqsUpTo({<<<<"A", "c", "m", "e", " ", "C", "o">>, <<"4", "0", "0">>>>, <<<<"B", "o", "b">>, <<"3", "9", "9">>>>}, MaxRows)}

\* how the download of the ledger can end: the file as served, or an error.
\* A failed download leaves a pass with the rows of an empty ledger file,
\* which is one of the files served in Init
LedgerReads == {Loaded(ledgerFile.rows), LoadFailed}

\* the operator downloads transactions.csv and puts it in place of
\* data/transactions.csv
ReplaceLedger ==
  /\ pc = "done"
  /\ ledgerFile.replaced < MaxReplaces
  /\ ledgerFile' = [rows |-> ledgerCsv(ledgerUpdated),
                    replaced |-> ledgerFile.replaced + 1,
                    sales |-> sales, banking |-> banking, threshold |-> threshold]
  /\ UNCHANGED <<build, nameProbe, registry, summaryVars, passVars>>

LedgerNext ==
  \/ /\ OperatorWaits
     /\ \E hasFile \in BOOLEAN : SummaryClick(hasFile)
  \/ /\ spc = "await"
     /\ \E readOk \in BOOLEAN :
          \E sheet \in (IF readOk THEN LedgerSheets ELSE {<<>>}) : SummaryResume(readOk, sheet)
  \/ /\ OperatorWaits
     /\ \E t \in ThresholdChoices, hasFile \in BOOLEAN : ProcessClick(t, hasFile)
  \/ /\ awaiting # <<>> /\ NoHandlerRunning
     /\ \E k \in 1..Len(awaiting), b \in BankingReads, l \in LedgerReads :
          \E f \in (IF build = "v2" \/ ~b.ok THEN {<<>>} ELSE LedgerSalesFiles) :
            ProcessResume(k, b, l, f)
  \/ ProcessRow
  \/ FinishPass
  \/ ReplaceLedger

LedgerSpec == Init /\ [][LedgerNext]_vars

\* ---- a pass run again on the ledger it produced ----

\* the pass that just finished read the served ledger and had the inputs of
\* the pass that ledger came from
rerunOfSamePass ==
  /\ pc = "done"
  /\ ledgerFile.replaced >= 1
  /\ sales = ledgerFile.sales
  /\ banking = ledgerFile.banking
  /\ threshold = ledgerFile.threshold
  /\ ledgerExisting = normalizeLedgerRows(build, ledgerFile.rows)

\* x is the entry e, as written or as read back from the served ledger
sameEntry(x, e) == x = e \/ x = upgradeLedgerRow(build, e).row
copiesIn(rows, e) == Cardinality({k \in 1..Len(rows) : sameEntry(rows[k], e)})

\* C16: when the served ledger is the merged ledger of a pass and the pass is
\* run again on the same sales input and registry, the pass completes, the
\* merged ledger is as long as the served one plus ledgerNew, and it holds
\* every new entry twice as often as ledgerNew does
RerunDuplicates ==
  rerunOfSamePass =>
    /\ status = statusText("Done")
    /\ \E k \in 1..Len(files) : files[k] = "transactions"
    /\ Len(ledgerUpdated) = Len(ledgerFile.rows) + Len(ledgerNew)
    /\ \A k \in 1..Len(ledgerNew) :
         copiesIn(ledgerUpdated, ledgerNew[k]) >= 2 * copiesIn(ledgerNew, ledgerNew[k])

\* a pass with a bank and a MoMo entry, run twice over the deployed ledger
RerunDoubledLedger ==
  /\ rerunOfSamePass
  /\ Len(ledgerNew) = 2
  /\ ledgerNew[1] # ledgerNew[2]
  /\ Len(ledgerFile.rows) = Len(LedgerFile) + 2
  /\ Len(ledgerUpdated) = Len(LedgerFile) + 4

\* ---- normalizing the ledger twice ----

\* C17: normalizeLedgerRows leaves the rows it produced as they are, field by
\* field, also the rows whose month or year it could not recover
NormalizationIdempotent ==
  pc \in {"rows", "done"} =>
    normalizeLedgerRows(build, ledgerExisting) = ledgerExisting

\* a legacy row without a year is normalized to YEAR "", and normalized once
\* more to YEAR "0"
UnrecoveredYearRewritten ==
  /\ pc \in {"rows", "done"}
  /\ Len(normalizeLedgerRows(build, ledgerExisting)) = Len(ledgerExisting)
  /\ \E k \in 1..Len(ledgerExisting) :
       /\ ledgerExisting[k]["YEAR"] = <<>>
       /\ normalizeLedgerRows(build, ledgerExisting)[k]["YEAR"] = <<"0">>

RecoveredRowsStable ==
  pc \in {"rows", "done"} =>
    \A k \in 1..Len(ledgerExisting) :
      ledgerExisting[k]["YEAR"] # <<>> =>
        upgradeLedgerRow(build, ledgerExisting[k]).row = ledgerExisting[k]

\* ---- the ledger across a pass ----

\* the entry of the served ledger stands in the merged ledger with the values
\* the file has for it
standsIn(r, rows) ==
  \E k \in 1..Len(rows) : \A c \in (DOMAIN r) \cap LedgerCols : rows[k][c] = r[c]

\* C18: after a pass every entry of the served ledger stands in the merged
\* ledger with its field values unchanged, and the merged ledger is as long as
\* the served one plus the new bank and MoMo entries
LedgerAppendOnly ==
  pc = "done" /\ ledgerExisting = normalizeLedgerRows(build, ledgerFile.rows) =>
    /\ \A k \in 1..Len(ledgerFile.rows) : standsIn(ledgerFile.rows[k], ledgerUpdated)
    /\ Len(ledgerUpdated) = Len(ledgerFile.rows) + Len(bankBatch) + Len(momoBatch)

\* an entry that a pass wrote with YEAR "" comes out of the next pass with
\* YEAR "0"
WrittenEntryRewritten ==
  /\ pc = "done"
  /\ ledgerFile.replaced >= 1
  /\ ledgerExisting = normalizeLedgerRows(build, ledgerFile.rows)
  /\ \E k \in 1..Len(ledgerFile.rows) :
       /\ ledgerFile.rows[k]["YEAR"] = <<>>
       /\ ~standsIn(ledgerFile.rows[k], ledgerUpdated)
       /\ standsIn([ledgerFile.rows[k] EXCEPT !["YEAR"] = <<"0">>], ledgerUpdated)

\* the entries in memory are carried over as they are
NormalizedLedgerKept ==
  pc = "done" =>
    /\ \A k \in 1..Len(ledgerExisting) : standsIn(ledgerExisting[k], ledgerUpdated)
    /\ Len(ledgerUpdated) = Len(ledgerExisting) + Len(bankBatch) + Len(momoBatch)

\* ---- the ISSUE of an invalid row ----

\* the four rules of a sales row, in the order the ISSUE lists them
ruleReasons(r) ==
  (IF rowNameKey(r) = <<>> THEN <<"Missing COMPANY NAME">> ELSE <<>>)
  \o (IF ~isFinite(parseAmountCol(r, "SUM of COST"))
      THEN <<"Invalid SUM of COST (not a number)">> ELSE <<>>)
  \o (IF cleanCol(r, "MONTH") = <<>> THEN <<"Missing MONTH">> ELSE <<>>)
  \o (IF yearMissing(r) THEN <<"Invalid YEAR">> ELSE <<>>)

\* C19: the ISSUE of an Invalid row is the reasons of all the rules the row
\* violates (company name, SUM of COST, MONTH, YEAR), in that order, joined
\* by "; "
IssueListsEveryRule ==
  \A k \in 1..Len(routed) :
    routed[k].inv # <<>> =>
      routed[k].inv[1]["ISSUE"] = Issue(ruleReasons(sales[k]), "; ")

\* a row without a name and without a year is reported for the name only
MissingYearUnlisted ==
  \E k \in 1..Len(routed) :
    /\ routed[k].inv # <<>>
    /\ rowNameKey(sales[k]) = <<>>
    /\ cleanCol(sales[k], "YEAR") = <<>>
    /\ routed[k].inv[1]["ISSUE"] = Issue(<<"Missing COMPANY NAME">>, "; ")

\* with a YEAR cell that is not empty, every violated rule is listed
IssueListsRulesOfDatedRow ==
  \A k \in 1..Len(routed) :
    routed[k].inv # <<>> /\ cleanCol(sales[k], "YEAR") # <<>> =>
      routed[k].inv[1]["ISSUE"] = Issue(ruleReasons(sales[k]), "; ")

FourReasonsListed ==
  \E k \in 1..Len(routed) :
    /\ routed[k].inv # <<>>
    /\ routed[k].inv[1]["ISSUE"] =
         Issue(<<"Missing COMPANY NAME", "Invalid SUM of COST (not a number)",
                 "Missing MONTH", "Invalid YEAR">>, "; ")

\* an invalid row of a raw report lists its two rules
RawIssueListsBothRules ==
  \A k \in 1..Len(summaryInvalid.rows) :
    LET e == summaryInvalid.rows[k] IN
      e["ISSUE"] =
        Issue((IF e["COMPANY NAME"] = <<>> THEN <<"Missing COMPANY NAME">> ELSE <<>>)
              \o (IF ~isFinite(parseAmount(e["COST"]))
                  THEN <<"Invalid COST (not a number)">> ELSE <<>>), "; ")

\* ---- the ROW_NUMBER of an invalid row ----

\* the positions in the uploaded rows of the rows the handler keeps
keptPositions ==
  IF build = "v1" THEN 1..Len(salesRaw)
  ELSE {p \in 1..Len(salesRaw) : ~isAllEmptyRow(salesRaw[p])}
\* the position of the k-th of a set of positions
nthOf(S, k) == CHOOSE p \in S : Cardinality({q \in S : q <= p}) = k

\* the positions in the raw sheet of the data rows reported as invalid
rawInvalidPositions(sheet) ==
  {p \in (findHeaderRow(sheet) + 1)..Len(sheet) :
     /\ ~isAllEmptyArrayRow(sheet[p])
     /\ rawReasons(clean(cellAt(sheet[p], headerCol(sheet[findHeaderRow(sheet)], HdrCompanyName))),
                   parseAmount(cellAt(sheet[p], headerCol(sheet[findHeaderRow(sheet)], HdrCost))))
          # <<>>}

\* C20: the ROW_NUMBER of an Invalid entry is the 1-based position of its row
\* in the input, header rows counted: one more than its position among the
\* uploaded sales rows, and its position in the raw sheet
RowNumberIsPosition ==
  /\ \A k \in 1..Len(routed) :
       routed[k].inv # <<>> =>
         routed[k].inv[1]["ROW_NUMBER"] = nthOf(keptPositions, k) + 1
  /\ \A k \in 1..Len(summaryInvalid.rows) :
       summaryInvalid.rows[k]["ROW_NUMBER"] = nthOf(rawInvalidPositions(summaryInvalid.sheet), k)

\* an invalid row behind an empty row is reported with the number of the
\* empty row
RowNumberShifted ==
  /\ Len(salesRaw) = 2 /\ Len(sales) = 1 /\ Len(routed) = 1
  /\ isAllEmptyRow(salesRaw[1])
  /\ routed[1].inv # <<>>
  /\ routed[1].inv[1]["ROW_NUMBER"] = 2

\* the raw report numbers its invalid rows by their position in the sheet
RawRowNumberIsPosition ==
  \A k \in 1..Len(summaryInvalid.rows) :
    summaryInvalid.rows[k]["ROW_NUMBER"] = nthOf(rawInvalidPositions(summaryInvalid.sheet), k)

RawRowBehindEmptyRow ==
  /\ Len(summaryInvalid.rows) = 1
  /\ Len(summaryInvalid.sheet) >= 4
  /\ isAllEmptyArrayRow(summaryInvalid.sheet[3])
  /\ summaryInvalid.rows[1]["ROW_NUMBER"] = 4

\* ---- the ledger merge is a stable sort ----

\* what the comparator of the ledger sort sees of an entry
sortClass(e) == <<yearKey(e), monthKey(e)>>
sortClasses(rows) == [k \in 1..Len(rows) |-> sortClass(rows[k])]
oddMonth(e) == monthIndex(e["MONTH"]) = 0 - 1

\* the rows whose class (cls[k] for rows[k]) is c, in their order
inClass(rows, cls, c) ==
  LET at == SelectSeq([k \in 1..Len(rows) |-> k], LAMBDA k : cls[k] = c)
  IN [j \in 1..Len(at) |-> rows[at[j]]]

\* merged holds the rows of both, class by class in the same order, and in
\* it a row of month rank 99 stands behind the other months of its year and
\* before the later years
stablySorted(merged, cm, both, cb) ==
  /\ Len(merged) = Len(both)
  /\ \A c \in {cm[k] : k \in 1..Len(merged)} :
       inClass(merged, cm, c) = inClass(both, cb, c)
  /\ \A a, b \in 1..Len(merged) :
       cm[a][2] = 99 =>
         /\ (cm[b][1] = cm[a][1] /\ cm[b][2] # 99) => b < a
         /\ cm[b][1] > cm[a][1] => a < b

\* C21: the merged ledger holds the existing entries followed by the new
\* ones, re-ordered so that the entries of one year and month index keep the
\* order they had in that concatenation, and an entry whose month is not a
\* month name stands behind every month-named entry of its year and before
\* every entry of a later year
MergeIsStable ==
  pc = "done" =>
    stablySorted(ledgerUpdated, sortClasses(ledgerUpdated),
                 ledgerExisting \o ledgerNew, sortClasses(ledgerExisting \o ledgerNew))

\* a pass whose new entries share year and month with existing entries that
\* differ from them, over a ledger with an odd-month entry behind a
\* month-named entry of its year and one before an entry of a later year
StableMergeReached ==
  /\ pc = "done"
  /\ \E x \in 1..Len(ledgerExisting), n \in 1..Len(ledgerNew) :
       /\ sortClass(ledgerExisting[x]) = sortClass(ledgerNew[n])
       /\ ledgerExisting[x] # ledgerNew[n]
  /\ \E a, b \in 1..Len(ledgerUpdated) :
       /\ a < b
       /\ oddMonth(ledgerUpdated[b]) /\ ~oddMonth(ledgerUpdated[a])
       /\ yearKey(ledgerUpdated[a]) = yearKey(ledgerUpdated[b])
  /\ \E b, c \in 1..Len(ledgerUpdated) :
       /\ b < c
       /\ oddMonth(ledgerUpdated[b])
       /\ yearKey(ledgerUpdated[c]) > yearKey(ledgerUpdated[b])

\* ---- sorting a sorted ledger ----

\* C22: the ledger sort applied to the merged ledger of a pass, as the pass
\* holds it and as it is read back from transactions.csv, returns the same
\* sequence, entry for entry
ResortIsNoOp ==
  pc = "done" =>
    /\ sortLedger(ledgerUpdated) = ledgerUpdated
    /\ sortLedger(ledgerCsv(ledgerUpdated)) = ledgerCsv(ledgerUpdated)

\* a merged ledger the sort had to re-order, with two different entries of
\* one period, an entry without a year and an entry without a month name
ResortedLedgerReached ==
  /\ pc = "done"
  /\ ledgerUpdated # ledgerExisting \o ledgerNew
  /\ \E a, b \in 1..Len(ledgerUpdated) :
       /\ a < b
       /\ sortClass(ledgerUpdated[a]) = sortClass(ledgerUpdated[b])
       /\ ledgerUpdated[a] # ledgerUpdated[b]
  /\ \E a \in 1..Len(ledgerUpdated) : ledgerUpdated[a]["YEAR"] = <<>>
  /\ \E a \in 1..Len(ledgerUpdated) :
       oddMonth(ledgerUpdated[a]) /\ ledgerUpdated[a]["YEAR"] # <<>>

\* ---- a supplier that stands in the registry more than once ----

\* the registry rows under the key of sales row k, and the last of them
rowsUnderKeyOf(k) == {b \in 1..Len(banking) : normName(banking[b]["COMPANY NAME"]) = rowNameKey(sales[k])}
lastUnderKeyOf(k) == banking[SetMax(rowsUnderKeyOf(k))]

\* C23: with several registry rows under one normalized name the pass goes
\* through the row loop, and what a valid sales row with that name appends is
\* what it appends against a registry holding only the last of these rows
LastRegistryRowWins ==
  pc = "done" =>
    \A k \in 1..Len(routed) :
      (validRow(k) /\ rowsUnderKeyOf(k) # {}) =>
        routed[k] = routeRow(build, sales[k], k - 1, threshold, <<lastUnderKeyOf(k)>>)

\* a finished pass that paid a supplier by bank whose name stands in the
\* registry twice with different accounts
DuplicateSupplierPaid ==
  /\ pc = "done"
  /\ \E k \in 1..Len(routed) :
       /\ validRow(k)
       /\ Cardinality(rowsUnderKeyOf(k)) >= 2
       /\ \E b \in rowsUnderKeyOf(k) : banking[b]["ACCOUNT"] # lastUnderKeyOf(k)["ACCOUNT"]
       /\ routed[k].bank # <<>>
       /\ routed[k].bank[1]["ACCOUNT"] = lastUnderKeyOf(k)["ACCOUNT"]

\* ---- how a started pass ends ----

LoadingText == "Loading banking details + ledger..."

\* C24: every started pass eventually leaves the status at "Done" or at a
\* message that explains which rule failed; it does not stay at
\* "Loading banking details + ledger..."
PassEndsExplained ==
  (pc = "await") ~> (pc \in {"idle", "done"} /\ status.text # LoadingText)

\* the download of the registry failed in a build that reads nothing but the
\* two downloads and the uploaded file: the handler is over and the status
\* still says it is loading
RegistryLoadFailedSilently ==
  /\ build # "v2"
  /\ pc = "crashed"
  /\ status.text = LoadingText

\* ---- clicks on Process while a pass is under way ----

\* the files handed to the page in these runs: of one data row at most
OverlapSheets == {s \in RawSheets : Len(s) <= 3}
OverlapFiles == {f \in SalesFiles : Len(f) <= 1}

\* nothing disables the buttons: the operator clicks them whenever the page
\* takes a click, also while a pass is suspended at its await
OverlapNext ==
  \/ \E hasFile \in BOOLEAN : SummaryClick(hasFile)
  \/ /\ spc = "await"
     /\ \E readOk \in BOOLEAN :
          \E sheet \in (IF readOk THEN OverlapSheets ELSE {<<>>}) :
            SummaryResume(readOk, sheet)
  \/ \E t \in ThresholdChoices, hasFile \in BOOLEAN : ProcessClick(t, hasFile)
  \/ /\ awaiting # <<>> /\ NoHandlerRunning
     /\ \E k \in 1..Len(awaiting), b \in BankingReads :
          \E f \in (IF build = "v2" \/ ~b.ok THEN {<<>>} ELSE OverlapFiles) :
            ProcessResume(k, b, Loaded(ledgerFile.rows), f)
  \/ ProcessRow
  \/ FinishPass

OverlapSpec == Init /\ [][OverlapNext]_vars

\* the passes started and not yet over
PassesInFlight == Len(awaiting) + (IF pc = "rows" THEN 1 ELSE 0)

\* C25: no two passes are in flight at the same time; a click while a pass
\* is suspended at its await starts no second one
OnePassInFlight == PassesInFlight <= 1

\* a second click found the first pass suspended and started another
SecondPassStarted ==
  /\ Len(awaiting) = 2
  /\ pc = "await" /\ status.text = LoadingText

\* ---- the summary of a raw report, company by company ----

\* the company and the cost of every data row of a raw sheet under the
\* header row hdr, by position
rawCompanies(sheet, hdr, nameCol) ==
  [p \in (hdr + 1)..Len(sheet) |-> clean(cellAt(sheet[p], nameCol))]
rawCosts(sheet, hdr, costCol) ==
  [p \in (hdr + 1)..Len(sheet) |-> parseAmount(cellAt(sheet[p], costCol))]

\* the positions of the valid data rows, and their keys
rawValidPositions(sheet, companies, costs) ==
  {p \in DOMAIN companies :
     ~isAllEmptyArrayRow(sheet[p]) /\ companies[p] # <<>> /\ isFinite(costs[p])}
rawKeys(companies, valid) == [p \in valid |-> normName(companies[p])]
summaryKeys(srows) == [k \in 1..Len(srows) |-> normName(srows[k]["COMPANY NAME"])]

\* the costs of the rows at the positions S, added up
RECURSIVE rawCostOver(_, _)
rawCostOver(costs, S) ==
  IF S = {} THEN 0 ELSE costs[SetMin(S)] + rawCostOver(costs, S \ {SetMin(S)})

\* the summary holds one row for every key among the valid rows and no other
oneRowPerKey(skeys, keys) ==
  /\ \A p \in DOMAIN keys : \E k \in DOMAIN skeys : skeys[k] = keys[p]
  /\ \A k \in DOMAIN skeys :
       /\ \E p \in DOMAIN keys : keys[p] = skeys[k]
       /\ \A m \in DOMAIN skeys : skeys[m] = skeys[k] => m = k

\* the SUM of COST of every summary row is the total of the valid rows of
\* its key: the very number, or the number written with two decimals
sumsPerKey(srows, skeys, keys, costs, rounded) ==
  \A k \in DOMAIN skeys :
    IF rounded
    THEN srows[k]["SUM of COST"]
           = money(rawCostOver(costs, {p \in DOMAIN keys : keys[p] = skeys[k]}))
    ELSE parseAmount(srows[k]["SUM of COST"])
           = rawCostOver(costs, {p \in DOMAIN keys : keys[p] = skeys[k]})

summarisedByKey(srows, skeys, keys, costs, rounded) ==
  oneRowPerKey(skeys, keys) /\ sumsPerKey(srows, skeys, keys, costs, rounded)
summarisedCells(srows, sheet, companies, costs, rounded) ==
  summarisedByKey(srows, summaryKeys(srows),
                  rawKeys(companies, rawValidPositions(sheet, companies, costs)),
                  costs, rounded)
summarisedUnder(srows, sheet, hdr, rounded) ==
  summarisedCells(srows, sheet,
                  rawCompanies(sheet, hdr, headerCol(sheet[hdr], HdrCompanyName)),
                  rawCosts(sheet, hdr, headerCol(sheet[hdr], HdrCost)), rounded)

\* C26 (as stated): the summary of a raw report has exactly one row for every
\* normalized name among the valid rows, and its SUM of COST is the sum of the
\* costs of the valid rows with that key; invalid rows add to no sum
SummarySumsPerCompany ==
  ~summaryNull => summarisedUnder(summaryRows, rawRead, findHeaderRow(rawRead), FALSE)

\* C26 (amended): one row for every normalized name among the valid rows, its
\* SUM of COST the sum of the costs of the valid rows with that key written
\* with two decimals; invalid rows add to no sum
SummarySumsPerCompanyRounded ==
  ~summaryNull => summarisedUnder(summaryRows, rawRead, findHeaderRow(rawRead), TRUE)

twoSpellings(companies, valid) ==
  \E p, q \in valid : companies[p] # companies[q]
twoSpellingsIn(sheet, companies, costs) ==
  twoSpellings(companies, rawValidPositions(sheet, companies, costs))
twoSpellingsUnder(sheet, hdr) ==
  twoSpellingsIn(sheet, rawCompanies(sheet, hdr, headerCol(sheet[hdr], HdrCompanyName)),
                 rawCosts(sheet, hdr, headerCol(sheet[hdr], HdrCost)))

\* a summary of one row that adds up two spellings of one company, read from
\* a sheet that also held an invalid row
TwoSpellingsSummed ==
  /\ ~summaryNull /\ Len(summaryRows) = 1
  /\ summaryInvalid.rows # <<>>
  /\ twoSpellingsUnder(rawRead, findHeaderRow(rawRead))

\* ---- the generated registry has one row per supplier ----

\* the name a row of banking-details.csv is written back with
writtenName(script, r) ==
  IF script = "suppliers"
  THEN toUpperCase(clean(existingValue(r, "COMPANY NAME")))
  ELSE clean(existingValue(r, "COMPANY NAME"))

\* C27: no two rows of the generated registry have the same normalized
\* company name, whatever the existing registry and the uploaded sheets hold,
\* and a supplier that banking-details.csv lists more than once is written
\* as its last row there
RegistryKeysUnique ==
  registry.at = "done" =>
    /\ \A a, b \in 1..Len(registry.rows) :
         normName(registry.rows[a]["COMPANY NAME"]) = normName(registry.rows[b]["COMPANY NAME"])
           => a = b
    /\ \A e \in 1..Len(registry.csv) : existingNamed(e) /\ lastOfSupplier(e) =>
         /\ generatedFor(existingKey(e)) # {}
         /\ \A g \in generatedFor(existingKey(e)) :
              registry.rows[g]["COMPANY NAME"] = writtenName(registry.script, registry.csv[e])

\* an update of a registry that lists one supplier twice, spelled
\* differently, which also added a supplier
DuplicateResolved ==
  /\ registry.at = "done"
  /\ registry.addedCount >= 1
  /\ \E e \in 1..Len(registry.csv) : \E j \in (e + 1)..Len(registry.csv) :
       /\ existingNamed(e) /\ existingNamed(j)
       /\ existingKey(e) = existingKey(j)
       /\ clean(existingValue(registry.csv[e], "COMPANY NAME"))
            # clean(existingValue(registry.csv[j], "COMPANY NAME"))

\* ---- the summary a pass works on ----

\* C28: a pass classifies the summary it found when it was clicked; a click
\* on Generate Summary during its await neither ends it on a cleared summary
\* nor hands it another one
SnapshotClassified ==
  build = "v2" =>
    /\ pc \in {"rows", "done"} => salesRaw = checked.summary
    /\ pc = "crashed" => ~summaryNull

\* a pass that ran to its end on a summary generated after its click
ReplacedSummaryClassified ==
  /\ build = "v2" /\ pc = "done"
  /\ checked.summary # <<>> /\ salesRaw # <<>>
  /\ salesRaw # checked.summary

\* a pass that was clicked on a summary and ended at the cleared one
ClearedSummaryRead ==
  /\ build = "v2" /\ pc = "crashed"
  /\ checked.summary # <<>> /\ summaryNull
  /\ status.text = LoadingText

\* ---- Process after Generate Summary ----

GenerateFirstText == "Please generate the Monthly Sales Summary (XLSX) first."

\* the most recent click on Generate Summary ended with a summary of at
\* least one row
attemptSucceeded == spc = "idle" /\ summaryStatus = "Summary ready."

\* a pass in its row loop or past it works on the summary of the most recent
\* attempt, which succeeded
runsOnLastSummary ==
  (build = "v2" /\ pc \in {"rows", "done"}) =>
    /\ attemptSucceeded
    /\ ~summaryNull /\ summaryRows # <<>>
    /\ summaryRows = parseRawSalesReport(rawRead).summaryRows
    /\ salesRaw = summaryRows

\* a click on Process when the most recent attempt did not succeed: the
\* handler writes the message, offers no file and starts no pass
haltsWithoutSummary ==
  (/\ build = "v2" /\ ~attemptSucceeded
   /\ Len(awaiting') >= Len(awaiting)
   /\ <<status, files, awaiting>>' # <<status, files, awaiting>>)
  => /\ status'.text = GenerateFirstText
     /\ files' = <<>>
     /\ awaiting' = awaiting /\ pc' = "idle"

LedgerFailureTolerated ==
  ~checked.ledgerOk =>
    /\ pc = "idle" => status.text = TemplateMismatch
    /\ pc \in {"rows", "done"} => ledgerExisting = <<>>
    /\ pc = "done" =>
         /\ status.text = "Done"
         /\ \E k \in 1..Len(files) : files[k] = "transactions"
         /\ ledgerUpdated = sortLedger(ledgerNew)
         /\ Len(ledgerUpdated) = Len(bankBatch) + Len(momoBatch)

\* a finished pass that paid suppliers and offers a ledger without the
\* entries of the served file, whose download failed
HistoryLeftOut ==
  /\ pc = "done" /\ ~checked.ledgerOk
  /\ ledgerFile.replaced = 0
  /\ normalizeLedgerRows(build, ledgerFile.rows) # <<>>
  /\ ledgerNew # <<>>
  /\ Len(ledgerUpdated) = Len(ledgerNew)

====
